---------------------------- MODULE Spec2Model ----------------------------
(***************************************************************************)
(* A model of the presence reconciler (src/app/DeviceTracker.py), of the   *)
(* queue-based worker pool and the Throttle decorator                      *)
(* (src/homeassistant/util.py), and of the remote Bus and StateMachine     *)
(* (src/homeassistant/remote.py).                                          *)
(*                                                                         *)
(* Times are whole seconds counted from datetime(1990, 1, 1), the tracker's*)
(* default_last_seen, so that default_last_seen is second 0.               *)
(*                                                                         *)
(* DeviceTracker.py is Python 2 code: dict.keys() returns a fresh list, on *)
(* which update_devices calls remove().  The iteration order of that list  *)
(* is the dict's, which the language leaves arbitrary: it is an input of   *)
(* the action.                                                             *)
(*                                                                         *)
(* One update_devices call reads the clock as one instant: the seconds     *)
(* that matter to it pass between calls.  The state machine the tracker    *)
(* writes to is not part of the sources at hand; it is modelled as the map *)
(* from entity id to state that the design describes.                      *)
(*                                                                         *)
(* A Throttle wrapper holds its lock from its first line to its return, so *)
(* a call is two steps: up to the call of the decorated method, and from   *)
(* the method's return or raise on.  Its clock counts ticks from 0.        *)
(*                                                                         *)
(* The remote operations are judged by what the server connection does:    *)
(* a response (status code and kind of body) or a ConnectionError.         *)
(*                                                                         *)
(* Further parts: the zone trigger and condition                           *)
(* (src/homeassistant/components/automation/zone.py), the time event       *)
(* listener (src/homeassistant/components/scheduler/time.py, its clock in  *)
(* ticks of which TicksPerDay make a day), ensure_unique_string            *)
(* (src/homeassistant/util.py) and Device.update_ha_state                  *)
(* (src/homeassistant/helpers.py).  OverlapSpec runs update_devices        *)
(* statement by statement for two calls at once; PoolFairSpec is the pool  *)
(* with its worker threads scheduled.                                      *)
(*                                                                         *)
(* LightSpec is the light component (src/homeassistant/components/light.py)*)
(* after setup(): the timer callback and the service handler each run      *)
(* update_light_state statement by statement, its clock in seconds.        *)
(***************************************************************************)
EXTENDS Naturals, Integers, Sequences, FiniteSets, TLC

VARIABLES
    \* ---- DeviceTracker ----
    devices_to_track,   \* self.devices_to_track: id -> [name, last_seen, category]
    states,             \* the state machine: category -> state
    all_devices_state,  \* self.all_devices_state
    now,                \* the wall clock, datetime.now()
    found_devices,      \* the argument of the latest update_devices call
    scan_result,        \* how the latest scan_devices() call ended: none | ok | error
    callback,           \* how the latest time-change callback ended: idle | returned | raised
    writes,             \* the statemachine.set_state calls of the latest callback, in order
    ever_found          \* the device ids that some scan result has held

tracker_vars == <<devices_to_track, states, all_devices_state, now, found_devices,
                  scan_result, callback, writes, ever_found>>

VARIABLES
    \* ---- ThreadPool ----
    worker_count,       \* self.worker_count
    has_busy_callback,  \* whether busy_callback is not None
    work_queue,         \* self.work_queue: the PriorityQueueItems queued
    unfinished_tasks,   \* the queue's count of items put and not yet task_done
    current_jobs,       \* self.current_jobs: the jobs being handled
    busy_warning_limit, \* self.busy_warning_limit
    running,            \* self.running
    lock_owner,         \* the thread holding self._lock: none | stop
    worker_pc,          \* each worker thread's position: get | handle | quit | dead
    worker_job,         \* the job each worker holds (0: none)
    stop_pc,            \* the stop() caller's position
    stop_i,             \* stop(): quit tasks added so far
    wait_pc,            \* the block_till_done() caller's position
    wait_seen,          \* how many jobs were accepted when block_till_done() was called
    jobs,               \* every job add_job accepted: its priority and what became of it
    last_add,           \* how the latest add_job call ended: none | accepted | RuntimeError
    busy_calls          \* the busy_callback invocations: the queue size each was given

pool_vars == <<worker_count, has_busy_callback, work_queue, unfinished_tasks, current_jobs,
               busy_warning_limit, running, lock_owner, worker_pc, worker_job,
               stop_pc, stop_i, wait_pc, wait_seen, jobs, last_add, busy_calls>>

VARIABLES
    \* ---- Throttle ----
    min_time,           \* self.min_time of the decorator
    limit_no_throttle,  \* self.limit_no_throttle (None: not given)
    accepts_kwargs,     \* whether the decorated method takes arbitrary keyword arguments
    clock,              \* the wall clock the wrapper reads, datetime.now()
    last_call,          \* wrapper.last_call of the wrapper the callers call
    inner_last_call,    \* wrapper.last_call of the limit_no_throttle wrapper inside it
    lock,               \* the thread holding the wrapper's lock (0: nobody)
    th_pc,              \* each calling thread's position: idle | method
    th_arg,             \* whether the thread's latest call passed no_throttle=True
    th_kwargs,          \* whether that call handed no_throttle on to the decorated method
    th_result,          \* how the thread's latest call ended
    caller,             \* the thread that made the latest call
    called_at,          \* the clock reading of the latest call's line 297
    calls,              \* the number of calls made
    last_return         \* when the decorated method last returned (None: never)

throttle_vars == <<min_time, limit_no_throttle, accepts_kwargs, clock, last_call,
                   inner_last_call, lock, th_pc, th_arg, th_kwargs, th_result, caller,
                   called_at, calls, last_return>>

VARIABLES
    \* ---- remote Bus and StateMachine ----
    lock_holder,        \* the thread that acquired StateMachine.lock last and has not
                        \* released it (0: the lock is free)
    client_pc,          \* each client thread's position in set_state: idle | acquire | request
    remote_op           \* the latest finished operation: what the server connection did
                        \* and how the operation ended

remote_vars == <<lock_holder, client_pc, remote_op>>

VARIABLES
    \* ---- zone automation ----
    zone_config,        \* the rule's config: which keys it holds, and its event
    trigger_result,     \* what trigger(hass, config, action) returned (none: not called yet)
    listener_registered,\* whether track_state_change was given zone_automation_listener
    change,             \* the latest state change delivered to the listener
    action_called,      \* whether that delivery called action()
    action_stack,       \* the frame action() was called from (none: not called)
    condition,          \* what if_action(hass, config) returned (none: not called yet)
    condition_state,    \* what hass.states.get(entity_id) gave the latest if_in_zone()
    condition_result    \* how the latest if_in_zone() ended

zone_vars == <<zone_config, trigger_result, listener_registered, change, action_called,
               action_stack, condition, condition_state, condition_result>>

VARIABLES
    \* ---- scheduler time event ----
    schedule_days,      \* self._schedule.days: the weekdays the schedule runs on
    event_time,         \* self._hour:self._minute:self._second, as a tick of the day
    first_now,          \* datetime.now() as line 47 read it
    loop_now,           \* datetime.now() as the loop of line 54 reads it
    next_time,          \* next_time of schedule()
    schedule_pc,        \* the position of schedule(): start | loop | done
    iterations,         \* how many times the loop body ran
    point_in_time       \* the times given to hass.track_point_in_time, in order

scheduler_vars == <<schedule_days, event_time, first_now, loop_now, next_time,
                    schedule_pc, iterations, point_in_time>>

VARIABLES
    \* ---- ensure_unique_string ----
    preferred_string,   \* the argument preferred_string
    current_strings,    \* the argument current_strings
    string,             \* the local string
    tries,              \* the local tries
    unique_pc           \* the position of the call: loop | returned

unique_vars == <<preferred_string, current_strings, string, tries, unique_pc>>

VARIABLES
    \* ---- helpers.Device ----
    device_entity_id,   \* self.entity_id (None: not assigned)
    real_device,        \* the state and attributes of the real device
    held_device,        \* the state and attributes the Device object holds
    device_log,         \* what the latest update_ha_state call did, in order
    device_result,      \* how that call ended
    states_set          \* the hass.states.set calls of that call, in order

device_vars == <<device_entity_id, real_device, held_device, device_log, device_result,
                 states_set>>

VARIABLES
    \* ---- DeviceTracker: update_devices calls that overlap ----
    cycle_pc,           \* each update_devices call's position
    cycle_found,        \* its found_devices not yet looked at
    cycle_temp,         \* its temp_tracking_devices
    cycle_rest,         \* the devices its second loop has not yet looked at
    home_by,            \* device id -> the call that last set it home (0: none)
    last_not_home       \* the latest write of not_home: the device, the call, whether
                        \* the device was then gone too long, and who set it home

overlap_vars == <<cycle_pc, cycle_found, cycle_temp, cycle_rest, home_by, last_not_home>>

VARIABLES
    \* ---- components.light ----
    light_clock,        \* datetime.now(), in seconds since setup()
    last_updated,       \* update_light_state.last_updated (None: no such attribute)
    light_pc,           \* each caller's position in update_light_state
    light_on,           \* light_control.is_light_on: what the light really is
    light_state,        \* the light's State in the state machine
    last_poll,          \* when the latest poll started
    prev_poll           \* when the poll before it started (None: there was none)

light_vars == <<light_clock, last_updated, light_pc, light_on, light_state, last_poll,
                prev_poll>>

vars == <<tracker_vars, pool_vars, throttle_vars, remote_vars, zone_vars, scheduler_vars,
          unique_vars, device_vars, overlap_vars, light_vars>>

-----------------------------------------------------------------------------
(* Bounds of the model *)

\* The clock reading when the tracker is constructed.
StartTime == 100
\* How far past StartTime the clock runs.
Horizon == 110
\* The longest scan result.
MaxFound == 2

\* The seconds between two consecutive time-change callbacks.
ScanSteps == {35, 36}

\* Device ids a scanner may report; "d3" is never tracked.
DeviceIds == {"d1", "d2", "d3"}
TrackableIds == {"d1", "d2"}
\* Display names get_devices_to_track may give.
Names == {"Phone", "Tablet", "alldevices"}

\* The most jobs add_job accepts in one behaviour.
MaxJobs == 3
\* The worker counts a pool is built with.
WorkerCounts == {1, 2}
\* The priorities clients give their jobs.
Priorities == {1, 2}

\* The last clock reading of a Throttle behaviour.
MaxClock == 6
\* The most calls made to a throttled method in one behaviour.
MaxCalls == 4
\* The min_time intervals a method is decorated with, in clock ticks.
MinTimes == {2}
\* The limit_no_throttle intervals given, besides none.
LimitsNoThrottle == {1, 3}
\* The threads that call a throttled method.
Threads == {1, 2}
\* The threads that use one remote StateMachine.
Clients == {1, 2}
\* The last second of a light behaviour.
MaxLightClock == 36
\* The seconds that pass at a time between the steps of the light component.
LightSteps == {5, 6}
\* What calls update_light_state: the second-0/30 timer callback and the handler
\* of the turn_on and turn_off services.
LightCallers == {"timer", "service"}
\* The update_devices calls that may be running at once.
Cycles == {1, 2}
\* The states and the attributes a device may have.
DeviceStates == {"on", "off"}
DeviceAttributes == {"dim", "bright"}
\* The entity ids of a Device: None until setup assigns one.
DeviceEntityIds == {"None", "light.lamp", "light.bed"}
\* The strings ensure_unique_string is asked for.
PreferredStrings == {"light.lamp", "light.lamp_2"}
\* The strings that may be taken already.
TakenStrings == {"light.lamp", "light.lamp_2", "light.lamp_3", "light.lamp_2_2",
                 "light.lamp_2_3", "light.bed"}
\* The clock ticks of one day; tick 0 is midnight.
TicksPerDay == 4
\* The ticks of a day that are whole seconds: the times an event can be set to.
EventTimes == {0, 2}
\* The days on which schedule() is called; day 0 is a Monday.
StartDays == 0..6
\* How far the clock may move between line 47 and the loop of line 54.
Drifts == {0, 1}
\* The zones zone.in_zone may find a position in; "zone.home" is the configured one.
ZoneIds == {"zone.home", "zone.work"}
\* The values a rule's config may give for "event"; without the key it is "enter".
Events == {"enter", "leave", "dwell"}
\* The status codes the server answers with.
StatusCodes == {200, 201, 400, 422, 500}
\* What a response carries: JSON with the expected keys, JSON without them, no JSON.
Bodies == {"json", "json_without_key", "text"}

-----------------------------------------------------------------------------
(* src/app/DeviceTracker.py *)

STATE_DEVICE_NOT_HOME == "device_not_home"
STATE_DEVICE_HOME == "device_home"
STATE_DEVICE_DEFAULT == STATE_DEVICE_NOT_HOME

TIME_SPAN_FOR_ERROR_IN_SCANNING == 70

STATE_CATEGORY_ALL_DEVICES == "device.alldevices"
STATE_CATEGORY_DEVICE_FORMAT(name) == "device." \o name

default_last_seen == 0

\* statemachine.add_category(category, initial_state)
add_category(sm, category, initial_state) ==
    [c \in (DOMAIN sm) \cup {category} |->
        IF c = category THEN initial_state ELSE sm[c]]

\* statemachine.set_state(category, new_state)
sm_set_state(sm, category, new_state) ==
    [sm EXCEPT ![category] = new_state]

\* statemachine.get_state(category).state
get_state(sm, category) == sm[category]

\* The sequences that list every element of S once: the orders dict.keys() can have.
KeyOrders(S) ==
    {s \in [1..Cardinality(S) -> S] : \A i, j \in 1..Cardinality(S) : s[i] = s[j] => i = j}

Range(s) == {s[i] : i \in DOMAIN s}

\* list.remove(x)
Remove(s, x) == SelectSeq(s, LAMBDA y : y # x)

\* DeviceTracker.__init__: the device records built from get_devices_to_track()
InitDevices(temp_devices_to_track) ==
    [device \in DOMAIN temp_devices_to_track |->
        [name      |-> temp_devices_to_track[device],
         last_seen |-> default_last_seen,
         category  |-> STATE_CATEGORY_DEVICE_FORMAT(temp_devices_to_track[device])]]

RECURSIVE AddCategories(_, _, _)
\* DeviceTracker.__init__: add_category for every tracked device
AddCategories(sm, devices, todo) ==
    IF todo = {} THEN sm
    ELSE LET device == CHOOSE d \in todo : TRUE
         IN  AddCategories(add_category(sm, devices[device].category, STATE_DEVICE_DEFAULT),
                           devices, todo \ {device})

\* DeviceTracker.__init__: the state machine after the categories are added
InitStates(devices) ==
    AddCategories(add_category(<<>>, STATE_CATEGORY_ALL_DEVICES, STATE_DEVICE_DEFAULT),
                  devices, DOMAIN devices)

\* set_state without line 52's test: last_seen is stamped whatever the state is
set_state_StampsAlways(acc, device, state, t) ==
    [acc EXCEPT
        !.devices = [acc.devices EXCEPT ![device].last_seen = t],
        !.states  = sm_set_state(acc.states, acc.devices[device].category, state),
        !.writes  = Append(acc.writes, [category |-> acc.devices[device].category,
                                        state |-> state, by |-> "set_state"])]

\* DeviceTracker.set_state, on the accumulated effect acc of the running call
set_state(acc, device, state, t) ==
    [acc EXCEPT
        !.devices = IF state = STATE_DEVICE_HOME
                    THEN [acc.devices EXCEPT ![device].last_seen = t]
                    ELSE acc.devices,
        !.states  = sm_set_state(acc.states, acc.devices[device].category, state),
        !.writes  = Append(acc.writes, [category |-> acc.devices[device].category,
                                        state |-> state, by |-> "set_state"])]

RECURSIVE FoundLoop(_, _, _)
\* update_devices, first loop: for device in found_devices
FoundLoop(acc, found, t) ==
    IF found = <<>> THEN acc
    ELSE LET device == Head(found)
         IN  IF device \in Range(acc.temp)
             THEN FoundLoop(set_state([acc EXCEPT !.temp = Remove(acc.temp, device)],
                                      device, STATE_DEVICE_HOME, t),
                            Tail(found), t)
             ELSE FoundLoop(acc, Tail(found), t)

\* update_devices, line 75: has the device been gone longer than the error time span
GoneTooLong(t, last_seen) == t - last_seen > TIME_SPAN_FOR_ERROR_IN_SCANNING

RECURSIVE AbsentLoop(_, _, _)
\* update_devices, second loop: for device in temp_tracking_devices
AbsentLoop(acc, temp, t) ==
    IF temp = <<>> THEN acc
    ELSE LET device == Head(temp)
         IN  IF /\ get_state(acc.states, acc.devices[device].category) = STATE_DEVICE_HOME
                /\ GoneTooLong(t, acc.devices[device].last_seen)
             THEN AbsentLoop(set_state(acc, device, STATE_DEVICE_NOT_HOME, t), Tail(temp), t)
             ELSE AbsentLoop(acc, Tail(temp), t)

\* The aggregate that is home only when every device is
AllDevicesState_AllHome(states_of_devices) ==
    IF states_of_devices = {STATE_DEVICE_HOME}
    THEN STATE_DEVICE_HOME ELSE STATE_DEVICE_NOT_HOME

\* update_devices, line 83: the aggregate of the devices' states
AllDevicesState(states_of_devices) ==
    IF STATE_DEVICE_HOME \in states_of_devices
    THEN STATE_DEVICE_HOME ELSE STATE_DEVICE_NOT_HOME

\* The aggregate written only when its value changed
SetAllDevicesState_OnlyIfChanged(acc, all) ==
    IF all = acc.all
    THEN acc
    ELSE [acc EXCEPT
            !.states = sm_set_state(acc.states, STATE_CATEGORY_ALL_DEVICES, all),
            !.writes = Append(acc.writes, [category |-> STATE_CATEGORY_ALL_DEVICES,
                                           state |-> all, by |-> "update_devices"]),
            !.all    = all]

\* update_devices, line 85: the aggregate is written whatever its value was
SetAllDevicesState(acc, all) ==
    [acc EXCEPT
        !.states = sm_set_state(acc.states, STATE_CATEGORY_ALL_DEVICES, all),
        !.writes = Append(acc.writes, [category |-> STATE_CATEGORY_ALL_DEVICES,
                                       state |-> all, by |-> "update_devices"]),
        !.all    = all]

\* DeviceTracker.update_devices(found_devices) at clock reading t, with keys() in
\* the order key_order: the devices, the state machine, all_devices_state and the
\* state-machine writes it leaves
update_devices(devices, sm, all_before, found, key_order, t) ==
    LET start   == [devices |-> devices, states |-> sm, all |-> all_before,
                    writes |-> <<>>, temp |-> key_order]
        seen    == FoundLoop(start, found, t)
        checked == AbsentLoop(seen, seen.temp, t)
        states_of_devices ==
            {get_state(checked.states, checked.devices[device].category) :
                device \in DOMAIN checked.devices}
    IN  SetAllDevicesState(checked, AllDevicesState(states_of_devices))

\* The maps get_devices_to_track() may return.
DeviceMaps == UNION {[S -> Names] : S \in SUBSET TrackableIds}

\* The results scan_devices() may return.
ScanResults == UNION {[1..n -> DeviceIds] : n \in 0..MaxFound}

TrackerInit ==
    /\ \E temp_devices_to_track \in DeviceMaps :
          /\ devices_to_track = InitDevices(temp_devices_to_track)
          /\ states = InitStates(InitDevices(temp_devices_to_track))
    /\ all_devices_state = STATE_DEVICE_DEFAULT
    /\ now = StartTime
    /\ found_devices = <<>>
    /\ scan_result = "none"
    /\ callback = "idle"
    /\ writes = <<>>
    /\ ever_found = {}

\* The time-change callback of line 43, in a cycle whose scan_devices() returns:
\* lambda time: self.update_devices(device_scanner.scan_devices())
ScanCycle ==
    \E step \in ScanSteps, found \in ScanResults,
       key_order \in KeyOrders(DOMAIN devices_to_track) :
        /\ now + step <= StartTime + Horizon
        /\ now' = now + step
        /\ LET r == update_devices(devices_to_track, states, all_devices_state, found,
                                   key_order, now + step)
           IN  /\ devices_to_track' = r.devices
               /\ states' = r.states
               /\ all_devices_state' = r.all
               /\ writes' = r.writes
        /\ found_devices' = found
        /\ ever_found' = ever_found \cup Range(found)
        /\ scan_result' = "ok"
        /\ callback' = "returned"

\* The same callback in a cycle whose scan_devices() raises: the lambda has no
\* handler, update_devices is never entered and the exception leaves the callback.
ScanRaises ==
    \E step \in ScanSteps :
        /\ now + step <= StartTime + Horizon
        /\ now' = now + step
        /\ scan_result' = "error"
        /\ callback' = "raised"
        /\ writes' = <<>>
        /\ UNCHANGED <<devices_to_track, states, all_devices_state, found_devices, ever_found>>

TrackerNext == ScanCycle \/ ScanRaises

\* A tracker of no devices that never runs: the tracker's part of a pool behaviour.
TrackerIdle ==
    /\ devices_to_track = InitDevices(<<>>)
    /\ states = InitStates(InitDevices(<<>>))
    /\ all_devices_state = STATE_DEVICE_DEFAULT
    /\ now = StartTime
    /\ found_devices = <<>>
    /\ scan_result = "none"
    /\ callback = "idle"
    /\ writes = <<>>
    /\ ever_found = {}

-----------------------------------------------------------------------------
(* src/homeassistant/util.py: ThreadPool *)

\* The priority stop() gives its quit tasks (line 386).
QUIT_PRIORITY == 1000

\* self._quit_task, an object no job is equal to; jobs are numbered from 1
quit_task == 0

Workers == 1..worker_count

\* ThreadPool.__init__(worker_count, job_handler, busy_callback)
PoolStart(count, with_busy_callback) ==
    /\ worker_count = count
    /\ has_busy_callback = with_busy_callback
    /\ work_queue = {}
    /\ unfinished_tasks = 0
    /\ current_jobs = {}
    /\ busy_warning_limit = count * count
    /\ running = TRUE
    /\ lock_owner = "none"
    /\ worker_pc = [w \in 1..count |-> "get"]
    /\ worker_job = [w \in 1..count |-> 0]
    /\ stop_pc = "idle"
    /\ stop_i = 0
    /\ wait_pc = "idle"
    /\ wait_seen = 0
    /\ jobs = <<>>
    /\ last_add = "none"
    /\ busy_calls = <<>>

PoolInit == \E count \in WorkerCounts, with_busy_callback \in BOOLEAN :
                PoolStart(count, with_busy_callback)

\* A pool nobody uses: the pool's part of a tracker behaviour.
PoolIdle == PoolStart(1, FALSE)

\* An ordering of the items by the larger priority number first
PriorityLess_LargerFirst(a, b) == a.priority > b.priority

\* PriorityQueueItem.__lt__
PriorityLess(a, b) == a.priority < b.priority

\* PriorityQueue.get(): an item no other queued item is less than
QueueHeads(queue) == {item \in queue : \A other \in queue : ~PriorityLess(other, item)}

\* An add_job without line 364: the warning is issued and the limit stays
PutJob_LimitKept(item) ==
    /\ work_queue' = work_queue \cup {item}
    /\ unfinished_tasks' = unfinished_tasks + 1
    /\ IF Cardinality(work_queue \cup {item}) > busy_warning_limit /\ has_busy_callback
       THEN /\ busy_calls' = Append(busy_calls, Cardinality(work_queue \cup {item}))
            /\ UNCHANGED busy_warning_limit
       ELSE UNCHANGED <<busy_warning_limit, busy_calls>>

\* add_job, lines 358-367: put the item, then warn if the queue is getting too big
PutJob(item) ==
    /\ work_queue' = work_queue \cup {item}
    /\ unfinished_tasks' = unfinished_tasks + 1
    /\ IF Cardinality(work_queue \cup {item}) > busy_warning_limit /\ has_busy_callback
       THEN /\ busy_warning_limit' = busy_warning_limit * 2
            /\ busy_calls' = Append(busy_calls, Cardinality(work_queue \cup {item}))
       ELSE UNCHANGED <<busy_warning_limit, busy_calls>>

\* An add_job without lines 355-356: the job is put whether or not the pool runs
AddJob_NoRunningTest ==
    \E priority \in Priorities :
        /\ lock_owner = "none"
        /\ Len(jobs) < MaxJobs
        /\ jobs' = Append(jobs, [priority |-> priority, status |-> "queued"])
        /\ PutJob([priority |-> priority, item |-> Len(jobs) + 1, n |-> 0])
        /\ last_add' = "accepted"
        /\ UNCHANGED <<worker_count, has_busy_callback, current_jobs, running, lock_owner,
                       worker_pc, worker_job, stop_pc, stop_i, wait_pc, wait_seen>>

\* ThreadPool.add_job(priority, job), called by a client thread
AddJob ==
    \E priority \in Priorities :
        /\ lock_owner = "none"
        /\ IF ~running
           THEN /\ last_add' = "RuntimeError"
                /\ UNCHANGED <<work_queue, unfinished_tasks, busy_warning_limit,
                               busy_calls, jobs>>
           ELSE /\ Len(jobs) < MaxJobs
                /\ jobs' = Append(jobs, [priority |-> priority, status |-> "queued"])
                /\ PutJob([priority |-> priority, item |-> Len(jobs) + 1, n |-> 0])
                /\ last_add' = "accepted"
        /\ UNCHANGED <<worker_count, has_busy_callback, current_jobs, running, lock_owner,
                       worker_pc, worker_job, stop_pc, stop_i, wait_pc, wait_seen>>

\* _threadpool_worker, lines 409-420: get an item; return on the quit task,
\* otherwise log the job as current and call job_handler(job)
WorkerGet(w) ==
    /\ worker_pc[w] = "get"
    /\ \E got \in QueueHeads(work_queue) :
        /\ work_queue' = work_queue \ {got}
        /\ IF got.item = quit_task
           THEN /\ unfinished_tasks' = unfinished_tasks - 1
                /\ worker_pc' = [worker_pc EXCEPT ![w] = "quit"]
                /\ UNCHANGED <<worker_job, current_jobs, jobs>>
           ELSE /\ worker_pc' = [worker_pc EXCEPT ![w] = "handle"]
                /\ worker_job' = [worker_job EXCEPT ![w] = got.item]
                /\ current_jobs' = current_jobs \cup {got.item}
                /\ jobs' = [jobs EXCEPT ![got.item].status = "handling"]
                /\ UNCHANGED unfinished_tasks
    /\ UNCHANGED <<worker_count, has_busy_callback, busy_warning_limit, running, lock_owner,
                   stop_pc, stop_i, wait_pc, wait_seen, last_add, busy_calls>>

\* A worker without line 423: the handled job stays in current_jobs
AfterJob_NoRemove(w) ==
    /\ UNCHANGED current_jobs
    /\ unfinished_tasks' = unfinished_tasks - 1
    /\ worker_pc' = [worker_pc EXCEPT ![w] = "get"]
    /\ worker_job' = [worker_job EXCEPT ![w] = 0]

\* _threadpool_worker, lines 420-426, after job_handler(job) returned
AfterJob(w) ==
    /\ current_jobs' = current_jobs \ {worker_job[w]}
    /\ unfinished_tasks' = unfinished_tasks - 1
    /\ worker_pc' = [worker_pc EXCEPT ![w] = "get"]
    /\ worker_job' = [worker_job EXCEPT ![w] = 0]

\* _threadpool_worker: job_handler(job) returns
WorkerReturn(w) ==
    /\ worker_pc[w] = "handle"
    /\ jobs' = [jobs EXCEPT ![worker_job[w]].status = "handled"]
    /\ AfterJob(w)
    /\ UNCHANGED <<worker_count, has_busy_callback, work_queue, busy_warning_limit, running,
                   lock_owner, stop_pc, stop_i, wait_pc, wait_seen, last_add, busy_calls>>

\* _threadpool_worker, when job_handler(job) raises: nothing in the worker catches
\* the exception, which ends the thread before lines 423 and 426
AfterRaise(w) ==
    /\ worker_pc' = [worker_pc EXCEPT ![w] = "dead"]
    /\ UNCHANGED <<current_jobs, unfinished_tasks, worker_job>>

\* _threadpool_worker: job_handler(job) raises
WorkerRaise(w) ==
    /\ worker_pc[w] = "handle"
    /\ jobs' = [jobs EXCEPT ![worker_job[w]].status = "raised"]
    /\ AfterRaise(w)
    /\ UNCHANGED <<worker_count, has_busy_callback, work_queue, busy_warning_limit, running,
                   lock_owner, stop_pc, stop_i, wait_pc, wait_seen, last_add, busy_calls>>

\* ThreadPool.stop(), lines 375-377: take the lock; return if not running
StopBegin ==
    /\ stop_pc \in {"idle", "done"}
    /\ lock_owner = "none"
    /\ IF ~running
       THEN UNCHANGED <<stop_pc, lock_owner>>
       ELSE stop_pc' = "clear" /\ lock_owner' = "stop"
    /\ UNCHANGED <<worker_count, has_busy_callback, work_queue, unfinished_tasks,
                   current_jobs, busy_warning_limit, running, worker_pc, worker_job,
                   stop_i, wait_pc, wait_seen, jobs, last_add, busy_calls>>

\* A stop() without lines 379-382: the queued jobs are left to the workers
StopClearCheck_NoClear ==
    /\ stop_pc = "clear"
    /\ stop_pc' = "quit_tasks"
    /\ UNCHANGED <<worker_count, has_busy_callback, work_queue, unfinished_tasks,
                   current_jobs, busy_warning_limit, running, lock_owner, worker_pc,
                   worker_job, stop_i, wait_pc, wait_seen, jobs, last_add, busy_calls>>

\* stop(), line 380: while self.work_queue.qsize() > 0
StopClearCheck ==
    /\ stop_pc = "clear"
    /\ stop_pc' = IF Cardinality(work_queue) > 0 THEN "clear_get" ELSE "quit_tasks"
    /\ UNCHANGED <<worker_count, has_busy_callback, work_queue, unfinished_tasks,
                   current_jobs, busy_warning_limit, running, lock_owner, worker_pc,
                   worker_job, stop_i, wait_pc, wait_seen, jobs, last_add, busy_calls>>

\* stop(), lines 381-382: get() an item, which waits for one when a worker emptied
\* the queue after the check, and mark it done without handling it
StopClearGet ==
    /\ stop_pc = "clear_get"
    /\ \E got \in QueueHeads(work_queue) :
        /\ work_queue' = work_queue \ {got}
        /\ jobs' = [jobs EXCEPT ![got.item].status = "cleared"]
    /\ unfinished_tasks' = unfinished_tasks - 1
    /\ stop_pc' = "clear"
    /\ UNCHANGED <<worker_count, has_busy_callback, current_jobs, busy_warning_limit,
                   running, lock_owner, worker_pc, worker_job, stop_i, wait_pc, wait_seen,
                   last_add, busy_calls>>

\* stop(), lines 385-386: one quit task per worker, through add_job
StopAddQuit ==
    /\ stop_pc = "quit_tasks"
    /\ stop_i < worker_count
    /\ PutJob([priority |-> QUIT_PRIORITY, item |-> quit_task, n |-> stop_i + 1])
    /\ stop_i' = stop_i + 1
    /\ UNCHANGED <<worker_count, has_busy_callback, current_jobs, running, lock_owner,
                   worker_pc, worker_job, stop_pc, wait_pc, wait_seen, jobs, last_add>>

\* stop(), line 388: self.running = False
StopSetRunning ==
    /\ stop_pc = "quit_tasks"
    /\ stop_i = worker_count
    /\ running' = FALSE
    /\ stop_pc' = "join"
    /\ UNCHANGED <<worker_count, has_busy_callback, work_queue, unfinished_tasks,
                   current_jobs, busy_warning_limit, lock_owner, worker_pc, worker_job,
                   stop_i, wait_pc, wait_seen, jobs, last_add, busy_calls>>

\* A join() that returns as soon as the queue is empty
JoinReturns_QueueEmpty == work_queue = {}

\* Queue.join(): returns when no put item is left without its task_done
JoinReturns == unfinished_tasks = 0

\* stop(), line 390: self.block_till_done(), then the lock is released
StopJoin ==
    /\ stop_pc = "join"
    /\ JoinReturns
    /\ stop_pc' = "done"
    /\ lock_owner' = "none"
    /\ UNCHANGED <<worker_count, has_busy_callback, work_queue, unfinished_tasks,
                   current_jobs, busy_warning_limit, running, worker_pc, worker_job,
                   stop_i, wait_pc, wait_seen, jobs, last_add, busy_calls>>

\* ThreadPool.block_till_done(), called by a client thread
BlockTillDoneCall ==
    /\ wait_pc \in {"idle", "returned"}
    /\ wait_pc' = "blocked"
    /\ wait_seen' = Len(jobs)
    /\ UNCHANGED <<worker_count, has_busy_callback, work_queue, unfinished_tasks,
                   current_jobs, busy_warning_limit, running, lock_owner, worker_pc,
                   worker_job, stop_pc, stop_i, jobs, last_add, busy_calls>>

\* block_till_done(): self.work_queue.join() returns
BlockTillDoneReturn ==
    /\ wait_pc = "blocked"
    /\ JoinReturns
    /\ wait_pc' = "returned"
    /\ UNCHANGED <<worker_count, has_busy_callback, work_queue, unfinished_tasks,
                   current_jobs, busy_warning_limit, running, lock_owner, worker_pc,
                   worker_job, stop_pc, stop_i, wait_seen, jobs, last_add, busy_calls>>

PoolNext ==
    \/ AddJob
    \/ \E w \in Workers : WorkerGet(w)
    \/ \E w \in Workers : WorkerReturn(w)
    \/ \E w \in Workers : WorkerRaise(w)
    \/ StopBegin
    \/ StopClearCheck
    \/ StopClearGet
    \/ StopAddQuit
    \/ StopSetRunning
    \/ StopJoin
    \/ BlockTillDoneCall
    \/ BlockTillDoneReturn

-----------------------------------------------------------------------------
(* src/homeassistant/util.py: Throttle *)

\* Python's None, for a last_call never set and a limit_no_throttle not given;
\* clock readings are 0 and later
None == -1

\* wrapper, line 296: force = last_call is None or kwargs.pop('no_throttle', False)
Force(last, no_throttle) == last = None \/ no_throttle

\* A wrapper that reads no_throttle and leaves it in kwargs for what it calls
KwargsLeft_NotPopped(last, no_throttle) == no_throttle

\* wrapper, line 296: whether kwargs still holds no_throttle afterwards; the
\* "or" evaluates kwargs.pop only when last_call is not None
KwargsLeft(last, no_throttle) == no_throttle /\ last = None

\* A cooldown that is over when exactly min_time has passed
CooledDown_AtMinTime(last, t, min) == t - last >= min

\* wrapper, line 298: datetime.now() - last_call > self.min_time
CooledDown(last, t, min) == t - last > min

\* wrapper, line 298: if force or datetime.now() - last_call > self.min_time
Runs(last, no_throttle, t, min) == Force(last, no_throttle) \/ CooledDown(last, t, min)

\* The call of the decorated method itself with the keywords left: a method
\* that takes no no_throttle keyword raises TypeError before its body runs
MethodCall(kw) ==
    IF kw /\ ~accepts_kwargs
    THEN [to |-> "TypeError", kw |-> kw]
    ELSE [to |-> "method", kw |-> kw]

\* wrapper(*args, **kwargs) up to the call of the decorated method, lines 294-300,
\* through the wrapper of line 286 when limit_no_throttle is given: where the call
\* goes, and whether no_throttle reaches the decorated method
WrapperCall(no_throttle) ==
    IF ~Runs(last_call, no_throttle, clock, min_time)
    THEN [to |-> "throttled", kw |-> FALSE]
    ELSE LET kw == KwargsLeft(last_call, no_throttle)
         IN  IF limit_no_throttle = None
             THEN MethodCall(kw)
             ELSE IF ~Runs(inner_last_call, kw, clock, limit_no_throttle)
                  THEN [to |-> "inner_throttled", kw |-> FALSE]
                  ELSE MethodCall(KwargsLeft(inner_last_call, kw))

\* Throttle(min_time, limit_no_throttle)(method), lines 280-308
ThrottleStart(min, limit, kwargs) ==
    /\ min_time = min
    /\ limit_no_throttle = limit
    /\ accepts_kwargs = kwargs
    /\ clock = 0
    /\ last_call = None
    /\ inner_last_call = None
    /\ lock = 0
    /\ th_pc = [t \in Threads |-> "idle"]
    /\ th_arg = [t \in Threads |-> FALSE]
    /\ th_kwargs = [t \in Threads |-> FALSE]
    /\ th_result = [t \in Threads |-> "none"]
    /\ caller = 0
    /\ called_at = 0
    /\ calls = 0
    /\ last_return = None

ThrottleInit ==
    \E min \in MinTimes, limit \in LimitsNoThrottle \cup {None}, kwargs \in BOOLEAN :
        ThrottleStart(min, limit, kwargs)

\* A throttled method nobody calls: the Throttle part of the other behaviours.
ThrottleIdle == ThrottleStart(0, None, TRUE)

\* A wrapper without the "with lock" of line 293: a call does not wait for the
\* call that is inside the method
Call_NoLock(t) ==
    \E no_throttle \in BOOLEAN :
        /\ th_pc[t] = "idle"
        /\ calls < MaxCalls
        /\ calls' = calls + 1
        /\ caller' = t
        /\ called_at' = clock
        /\ th_arg' = [th_arg EXCEPT ![t] = no_throttle]
        /\ LET call == WrapperCall(no_throttle)
           IN  /\ th_kwargs' = [th_kwargs EXCEPT ![t] = call.kw]
               /\ th_pc' = [th_pc EXCEPT ![t] = IF call.to = "method" THEN "method" ELSE "idle"]
               /\ lock' = IF call.to = "method" THEN t ELSE lock
               /\ th_result' = [th_result EXCEPT ![t] =
                                   CASE call.to = "method" -> "pending"
                                     [] call.to = "TypeError" -> "TypeError"
                                     [] OTHER -> "None"]
               /\ last_call' = IF call.to = "inner_throttled" THEN clock ELSE last_call
        /\ UNCHANGED <<min_time, limit_no_throttle, accepts_kwargs, clock, inner_last_call,
                       last_return>>

\* A thread calls the wrapper: it takes the lock and runs lines 294-298; it then
\* returns None (line 304), or calls the method, which raises TypeError at once,
\* returns None from the limit_no_throttle wrapper, or starts running
Call(t) ==
    \E no_throttle \in BOOLEAN :
        /\ th_pc[t] = "idle"
        /\ lock = 0
        /\ calls < MaxCalls
        /\ calls' = calls + 1
        /\ caller' = t
        /\ called_at' = clock
        /\ th_arg' = [th_arg EXCEPT ![t] = no_throttle]
        /\ LET call == WrapperCall(no_throttle)
           IN  /\ th_kwargs' = [th_kwargs EXCEPT ![t] = call.kw]
               /\ th_pc' = [th_pc EXCEPT ![t] = IF call.to = "method" THEN "method" ELSE "idle"]
               /\ lock' = IF call.to = "method" THEN t ELSE 0
               /\ th_result' = [th_result EXCEPT ![t] =
                                   CASE call.to = "method" -> "pending"
                                     [] call.to = "TypeError" -> "TypeError"
                                     [] OTHER -> "None"]
               /\ last_call' = IF call.to = "inner_throttled" THEN clock ELSE last_call
        /\ UNCHANGED <<min_time, limit_no_throttle, accepts_kwargs, clock, inner_last_call,
                       last_return>>

\* The decorated method returns: lines 301-302 of each wrapper around it
MethodReturn(t) ==
    /\ th_pc[t] = "method"
    /\ th_pc' = [th_pc EXCEPT ![t] = "idle"]
    /\ th_result' = [th_result EXCEPT ![t] = "result"]
    /\ inner_last_call' = IF limit_no_throttle = None THEN inner_last_call ELSE clock
    /\ last_call' = clock
    /\ last_return' = clock
    /\ lock' = 0
    /\ UNCHANGED <<min_time, limit_no_throttle, accepts_kwargs, clock, th_arg, th_kwargs,
                   caller, called_at, calls>>

\* A wrapper that stamps last_call in a finally clause: also when the method raises
MethodRaise_StampsLastCall(t) ==
    /\ th_pc[t] = "method"
    /\ th_pc' = [th_pc EXCEPT ![t] = "idle"]
    /\ th_result' = [th_result EXCEPT ![t] = "raised"]
    /\ last_call' = clock
    /\ lock' = 0
    /\ UNCHANGED <<min_time, limit_no_throttle, accepts_kwargs, clock,
                   inner_last_call, th_arg, th_kwargs, caller, called_at, calls,
                   last_return>>

\* The decorated method raises: the exception leaves every "with lock" block
MethodRaise(t) ==
    /\ th_pc[t] = "method"
    /\ th_pc' = [th_pc EXCEPT ![t] = "idle"]
    /\ th_result' = [th_result EXCEPT ![t] = "raised"]
    /\ lock' = 0
    /\ UNCHANGED <<min_time, limit_no_throttle, accepts_kwargs, clock, last_call,
                   inner_last_call, th_arg, th_kwargs, caller, called_at, calls,
                   last_return>>

\* Time passes
Tick ==
    /\ clock < MaxClock
    /\ clock' = clock + 1
    /\ UNCHANGED <<min_time, limit_no_throttle, accepts_kwargs, last_call, inner_last_call,
                   lock, th_pc, th_arg, th_kwargs, th_result, caller, called_at, calls,
                   last_return>>

-----------------------------------------------------------------------------
(* src/homeassistant/remote.py *)

\* What requests.get / requests.request does: a response, or ConnectionError
Responses == [raises : {"none"}, status_code : StatusCodes, body : Bodies]
ConnectionFailure == [raises |-> "ConnectionError", status_code |-> 0, body |-> "none"]
Transports == Responses \cup {ConnectionFailure}

\* An operation that failed before it reached _call_api
NotContacted == [raises |-> "none", status_code |-> 0, body |-> "none"]

\* How a piece of code ends: by raising an exception or by returning a value
Raise(exception) == [raised |-> exception, value |-> "none"]
Return(value) == [raised |-> "none", value |-> value]

\* try: ... except <handled>: <then>
Except(try, handled, then) == IF try.raised \in handled THEN then ELSE try

\* A _call_api without lines 45-47: the ConnectionError reaches the caller as it is
call_api_Untranslated(transport) ==
    IF transport.raises = "ConnectionError"
    THEN Raise("ConnectionError")
    ELSE Return("response")

\* _call_api(method, path, data), lines 32-47
call_api(transport) ==
    IF transport.raises = "ConnectionError"
    THEN Raise("HomeAssistantError")
    ELSE Return("response")

\* req.json()[key]: ValueError when the body is no JSON, KeyError when the key is missing
json_key(body) ==
    CASE body = "text" -> Raise("ValueError")
      [] body = "json_without_key" -> Raise("KeyError")
      [] OTHER -> Return("data")

\* json.dumps(data): TypeError when data holds an object JSON cannot encode
json_dumps(serializable) == IF serializable THEN Return("json") ELSE Raise("TypeError")

\* Bus.services, lines 75-97
services(transport) ==
    LET req == call_api(transport)
        try == IF req.raised # "none" THEN req
               ELSE IF transport.status_code = 200
                    THEN json_key(transport.body)
                    ELSE Raise("HomeAssistantError")
    IN  Except(try, {"ValueError", "KeyError"}, Raise("HomeAssistantError"))

\* Bus.event_listeners, lines 100-122
event_listeners(transport) ==
    LET req == call_api(transport)
        try == IF req.raised # "none" THEN req
               ELSE IF transport.status_code = 200
                    THEN json_key(transport.body)
                    ELSE Raise("HomeAssistantError")
    IN  Except(try, {"ValueError", "KeyError"}, Raise("HomeAssistantError"))

\* Bus.call_service, lines 132-146, after the service data was encoded
call_service(transport) ==
    LET req == call_api(transport)
    IN  IF req.raised # "none" THEN req
        ELSE IF transport.status_code # 200
             THEN IF transport.status_code = 400
                  THEN Raise("ServiceDoesNotExistError")
                  ELSE Raise("HomeAssistantError")
             ELSE Return("None")

\* Bus.fire_event, lines 162-171, after the event data was encoded
fire_event(transport) ==
    LET req == call_api(transport)
    IN  IF req.raised # "none" THEN req
        ELSE IF transport.status_code # 200
             THEN Raise("HomeAssistantError")
             ELSE Return("None")

\* StateMachine.entity_ids, lines 205-223
entity_ids(transport) ==
    LET req == call_api(transport)
        try == IF req.raised # "none" THEN req ELSE json_key(transport.body)
    IN  Except(try, {"ConnectionError", "ValueError", "KeyError"}, Return("[]"))

\* StateMachine.set_state, lines 244-258: the try block and its handler
remote_set_state(transport) ==
    LET req == call_api(transport)
        try == IF req.raised # "none" THEN req
               ELSE IF transport.status_code # 201
                    THEN Raise("HomeAssistantError")
                    ELSE Return("None")
    IN  Except(try, {"ConnectionError"}, Raise("HomeAssistantError"))

\* StateMachine.get_state, lines 263-295
remote_get_state(transport) ==
    LET req == call_api(transport)
        try == IF req.raised # "none" THEN req
               ELSE IF transport.status_code = 200
                    THEN json_key(transport.body)
               ELSE IF transport.status_code = 422
                    THEN Return("None")
                    ELSE Raise("HomeAssistantError")
    IN  Except(try, {"ConnectionError", "ValueError", "KeyError"},
               Raise("HomeAssistantError"))

\* The record of a finished operation
Finished(op, transport, end) ==
    [op |-> op, transport |-> transport, raised |-> end.raised, value |-> end.value]

\* Bus.__init__ and StateMachine.__init__, lines 69-72 and 198-202
RemoteInit ==
    /\ lock_holder = 0
    /\ client_pc = [c \in Clients |-> "idle"]
    /\ remote_op = Finished("none", NotContacted, Return("none"))

\* A remote Bus and StateMachine nobody uses.
RemoteIdle == RemoteInit

\* A thread reads Bus.services
Services ==
    /\ \E transport \in Transports :
          remote_op' = Finished("services", transport, services(transport))
    /\ UNCHANGED <<lock_holder, client_pc>>

\* A thread reads Bus.event_listeners
EventListeners ==
    /\ \E transport \in Transports :
          remote_op' = Finished("event_listeners", transport, event_listeners(transport))
    /\ UNCHANGED <<lock_holder, client_pc>>

\* A thread calls Bus.call_service: line 128 encodes the service data first
CallService ==
    /\ \E transport \in Transports, serializable \in BOOLEAN :
          remote_op' = IF json_dumps(serializable).raised # "none"
                       THEN Finished("call_service", NotContacted, json_dumps(serializable))
                       ELSE Finished("call_service", transport, call_service(transport))
    /\ UNCHANGED <<lock_holder, client_pc>>

\* A thread calls Bus.fire_event: line 158 encodes the event data first
FireEvent ==
    /\ \E transport \in Transports, serializable \in BOOLEAN :
          remote_op' = IF json_dumps(serializable).raised # "none"
                       THEN Finished("fire_event", NotContacted, json_dumps(serializable))
                       ELSE Finished("fire_event", transport, fire_event(transport))
    /\ UNCHANGED <<lock_holder, client_pc>>

\* A thread reads StateMachine.entity_ids
EntityIds ==
    /\ \E transport \in Transports :
          remote_op' = Finished("entity_ids", transport, entity_ids(transport))
    /\ UNCHANGED <<lock_holder, client_pc>>

\* A thread calls StateMachine.get_state
GetState ==
    /\ \E transport \in Transports :
          remote_op' = Finished("get_state", transport, remote_get_state(transport))
    /\ UNCHANGED <<lock_holder, client_pc>>

\* A client calls StateMachine.set_state and reaches self.lock.acquire(), line 239
SetStateCall(c) ==
    /\ client_pc[c] = "idle"
    /\ client_pc' = [client_pc EXCEPT ![c] = "acquire"]
    /\ UNCHANGED <<lock_holder, remote_op>>

\* set_state, lines 239-242: the lock is acquired, then the request data is built
\* with json.dumps(attributes), before the try block of line 244 is entered
SetStateAcquire(c) ==
    /\ client_pc[c] = "acquire"
    /\ lock_holder = 0
    /\ lock_holder' = c
    /\ \E serializable \in BOOLEAN :
          IF json_dumps(serializable).raised # "none"
          THEN /\ client_pc' = [client_pc EXCEPT ![c] = "idle"]
               /\ remote_op' = Finished("set_state", NotContacted, json_dumps(serializable))
          ELSE /\ client_pc' = [client_pc EXCEPT ![c] = "request"]
               /\ UNCHANGED remote_op

\* set_state, lines 244-261: the request ends; the finally block releases the lock
SetStateResponse(c) ==
    /\ client_pc[c] = "request"
    /\ \E transport \in Transports :
          remote_op' = Finished("set_state", transport, remote_set_state(transport))
    /\ lock_holder' = 0
    /\ client_pc' = [client_pc EXCEPT ![c] = "idle"]

-----------------------------------------------------------------------------
(* src/homeassistant/components/automation/zone.py *)

EVENT_ENTER == "enter"
EVENT_LEAVE == "leave"

\* The zone entity id the rule's config names
zone_entity_id == "zone.home"

\* No State: the from_s of an entity's first state, or states.get of an unknown
\* entity id
NoState == [exists |-> FALSE, located |-> FALSE, zone |-> "none"]

\* The States of the entity: with or without both latitude and longitude; one that
\* has them lies in one zone or in none
States == [exists : {TRUE}, located : {FALSE}, zone : {"none"}]
          \cup [exists : {TRUE}, located : {TRUE}, zone : ZoneIds \cup {"none"}]

\* None in (state.attributes.get(ATTR_LATITUDE), state.attributes.get(ATTR_LONGITUDE))
NoneInPosition(state) == ~state.located

\* zone.in_zone(hass, latitude, longitude): the zone the position lies in, or None
in_zone(state) == state.zone

\* from_zone and from_zone.entity_id == zone_entity_id
ZoneMatch(found_zone) == found_zone # "none" /\ found_zone = zone_entity_id

\* A listener that takes a State without a position for a State outside every zone
zone_automation_listener_NoPositionIsNoZone(event, from_s, to_s) ==
    LET from_zone == IF from_s.exists THEN in_zone(from_s) ELSE "none"
        to_zone == in_zone(to_s)
        from_match == ZoneMatch(from_zone)
        to_match == ZoneMatch(to_zone)
    IN  \/ event = EVENT_ENTER /\ ~from_match /\ to_match
        \/ event = EVENT_LEAVE /\ from_match /\ ~to_match

\* zone_automation_listener(entity, from_s, to_s), lines 35-60: whether it reaches
\* action() on line 60
zone_automation_listener(event, from_s, to_s) ==
    IF from_s.exists /\ NoneInPosition(from_s) THEN FALSE
    ELSE IF NoneInPosition(to_s) THEN FALSE
    ELSE LET from_zone == IF from_s.exists THEN in_zone(from_s) ELSE "none"
             to_zone == in_zone(to_s)
             from_match == ZoneMatch(from_zone)
             to_match == ZoneMatch(to_zone)
         IN  \/ event = EVENT_ENTER /\ ~from_match /\ to_match
             \/ event = EVENT_LEAVE /\ from_match /\ ~to_match

\* if_in_zone(), lines 79-90: state.attributes of None raises AttributeError
if_in_zone(state) ==
    IF ~state.exists THEN "AttributeError"
    ELSE IF NoneInPosition(state) THEN "None"
    ELSE IF in_zone(state) = "none" THEN "None"
    ELSE IF in_zone(state) = zone_entity_id THEN "True" ELSE "False"

\* The configs a rule may have: "entity_id" and "zone" present or not, and the event
ZoneConfigs == [entity_id : BOOLEAN, zone : BOOLEAN, event : Events]

\* trigger and if_action, lines 27 and 73: entity_id is None or zone_entity_id is None
MissingKey(config) == ~config.entity_id \/ ~config.zone

ZoneStart(config) ==
    /\ zone_config = config
    /\ trigger_result = "none"
    /\ listener_registered = FALSE
    /\ change = [from_s |-> NoState, to_s |-> NoState]
    /\ action_called = FALSE
    /\ action_stack = "none"
    /\ condition = "none"
    /\ condition_state = NoState
    /\ condition_result = "none"

ZoneInit == \E config \in ZoneConfigs : ZoneStart(config)

\* A rule nobody sets up.
ZoneIdle == ZoneStart([entity_id |-> TRUE, zone |-> TRUE, event |-> EVENT_ENTER])

\* trigger(hass, config, action), lines 22-65
Trigger ==
    /\ trigger_result = "none"
    /\ IF MissingKey(zone_config)
       THEN trigger_result' = "False" /\ listener_registered' = FALSE
       ELSE trigger_result' = "True" /\ listener_registered' = TRUE
    /\ UNCHANGED <<zone_config, change, action_called, action_stack, condition,
                   condition_state, condition_result>>

\* A state change of the entity is delivered to zone_automation_listener, which
\* calls action() itself on line 60
StateChanged ==
    /\ listener_registered
    /\ \E from_s \in States \cup {NoState}, to_s \in States :
          /\ change' = [from_s |-> from_s, to_s |-> to_s]
          /\ action_called' = zone_automation_listener(zone_config.event, from_s, to_s)
          /\ action_stack' = IF zone_automation_listener(zone_config.event, from_s, to_s)
                             THEN "zone_automation_listener" ELSE "none"
    /\ UNCHANGED <<zone_config, trigger_result, listener_registered, condition,
                   condition_state, condition_result>>

\* if_action(hass, config), lines 68-92
IfAction ==
    /\ condition = "none"
    /\ condition' = IF MissingKey(zone_config) THEN "False" ELSE "if_in_zone"
    /\ UNCHANGED <<zone_config, trigger_result, listener_registered, change,
                   action_called, action_stack, condition_state, condition_result>>

\* The automation evaluates the condition: if_in_zone()
IfInZone ==
    /\ condition = "if_in_zone"
    /\ \E state \in States \cup {NoState} :
          /\ condition_state' = state
          /\ condition_result' = if_in_zone(state)
    /\ UNCHANGED <<zone_config, trigger_result, listener_registered, change,
                   action_called, action_stack, condition>>

-----------------------------------------------------------------------------
(* src/homeassistant/components/scheduler/time.py *)

\* The weekdays, Monday 0 to Sunday 6
Weekdays == 0..6

\* datetime.weekday()
weekday(t) == (t \div TicksPerDay) % 7

\* datetime.now().replace(hour, minute, second, microsecond=0), line 47
Replace(t, time_of_day) == (t \div TicksPerDay) * TicksPerDay + time_of_day

\* next_time + timedelta(days=1), line 57
NextDay(t) == t + TicksPerDay

\* A loop test that also passes over a next_time equal to now
NotYet_NorNow(t, current, days) == t <= current \/ weekday(t) \notin days

\* The loop test of lines 54-55
NotYet(t, current, days) == t < current \/ weekday(t) \notin days

\* A Schedule's days: some weekdays, all of them when none are given
ScheduleDays == (SUBSET Weekdays) \ {{}}

TimeEventStart(days, time_of_day, t) ==
    /\ schedule_days = days
    /\ event_time = time_of_day
    /\ first_now = t
    /\ loop_now = t
    /\ next_time = 0
    /\ schedule_pc = "start"
    /\ iterations = 0
    /\ point_in_time = <<>>

\* TimeEventListener.__init__, lines 37-42, and the moment schedule() is called
TimeEventInit ==
    \E days \in ScheduleDays, time_of_day \in EventTimes,
       day \in StartDays, tick \in 0..(TicksPerDay - 1) :
        TimeEventStart(days, time_of_day, day * TicksPerDay + tick)

\* A time event nobody schedules.
TimeEventIdle == TimeEventStart(Weekdays, 0, 0)

\* schedule(), line 47; the clock may have moved on when the loop reads it
ScheduleBegin ==
    /\ schedule_pc = "start"
    /\ next_time' = Replace(first_now, event_time)
    /\ \E drift \in Drifts : loop_now' = first_now + drift
    /\ schedule_pc' = "loop"
    /\ UNCHANGED <<schedule_days, event_time, first_now, iterations, point_in_time>>

\* schedule(), lines 54-57: one pass of the loop body
ScheduleLoop ==
    /\ schedule_pc = "loop"
    /\ NotYet(next_time, loop_now, schedule_days)
    /\ next_time' = NextDay(next_time)
    /\ iterations' = iterations + 1
    /\ UNCHANGED <<schedule_days, event_time, first_now, loop_now, schedule_pc,
                   point_in_time>>

\* schedule(), lines 54 and 64: the loop ends; hass.track_point_in_time(execute, next_time)
ScheduleRegister ==
    /\ schedule_pc = "loop"
    /\ ~NotYet(next_time, loop_now, schedule_days)
    /\ point_in_time' = Append(point_in_time, next_time)
    /\ schedule_pc' = "done"
    /\ UNCHANGED <<schedule_days, event_time, first_now, loop_now, next_time, iterations>>

-----------------------------------------------------------------------------
(* src/homeassistant/util.py: ensure_unique_string *)

\* "{}_{}".format(preferred_string, tries), line 143
Numbered(preferred, n) == preferred \o "_" \o ToString(n)

\* ensure_unique_string(preferred_string, current_strings), lines 136-139
UniqueStart(preferred, current) ==
    /\ preferred_string = preferred
    /\ current_strings = current
    /\ string = preferred
    /\ tries = 1
    /\ unique_pc = "loop"

UniqueInit ==
    \E preferred \in PreferredStrings, current \in SUBSET TakenStrings :
        UniqueStart(preferred, current)

\* A call nobody makes.
UniqueIdle == UniqueStart("light.lamp", {})

\* A loop body that formats the string before it counts the try
UniqueLoop_FormatsFirst ==
    /\ unique_pc = "loop"
    /\ string \in current_strings
    /\ tries' = tries + 1
    /\ string' = Numbered(preferred_string, tries)
    /\ UNCHANGED <<preferred_string, current_strings, unique_pc>>

\* ensure_unique_string, lines 141-143: one pass of the loop body
UniqueLoop ==
    /\ unique_pc = "loop"
    /\ string \in current_strings
    /\ tries' = tries + 1
    /\ string' = Numbered(preferred_string, tries + 1)
    /\ UNCHANGED <<preferred_string, current_strings, unique_pc>>

\* ensure_unique_string, lines 141 and 145: the loop ends, string is returned
UniqueReturn ==
    /\ unique_pc = "loop"
    /\ string \notin current_strings
    /\ unique_pc' = "returned"
    /\ UNCHANGED <<preferred_string, current_strings, string, tries>>

-----------------------------------------------------------------------------
(* src/homeassistant/helpers.py: Device *)

Readings == [state : DeviceStates, attributes : DeviceAttributes]

\* An update_ha_state that reads the state before it refreshes the device
update_ha_state_ReadsFirst(entity_id, force_refresh, update_raises, held, real) ==
    IF entity_id = "None"
    THEN [result |-> "NoEntitySpecifiedError", log |-> <<>>, sets |-> <<>>, device |-> held]
    ELSE IF force_refresh /\ update_raises
    THEN [result |-> "raised", log |-> <<"get_state", "get_state_attributes", "update">>,
          sets |-> <<>>, device |-> held]
    ELSE [result |-> "returned",
          log |-> IF force_refresh
                  THEN <<"get_state", "get_state_attributes", "update", "set">>
                  ELSE <<"get_state", "get_state_attributes", "set">>,
          sets |-> <<[entity_id |-> entity_id, state |-> held.state,
                      attributes |-> held.attributes]>>,
          device |-> IF force_refresh THEN real ELSE held]

\* Device.update_ha_state(hass, force_refresh), lines 196-209; update() retrieves
\* the real device's state, or raises and retrieves nothing
update_ha_state(entity_id, force_refresh, update_raises, held, real) ==
    IF entity_id = "None"
    THEN [result |-> "NoEntitySpecifiedError", log |-> <<>>, sets |-> <<>>, device |-> held]
    ELSE IF force_refresh /\ update_raises
    THEN [result |-> "raised", log |-> <<"update">>, sets |-> <<>>, device |-> held]
    ELSE LET refreshed == IF force_refresh THEN real ELSE held
         IN  [result |-> "returned",
              log |-> IF force_refresh
                      THEN <<"update", "get_state", "get_state_attributes", "set">>
                      ELSE <<"get_state", "get_state_attributes", "set">>,
              sets |-> <<[entity_id |-> entity_id, state |-> refreshed.state,
                          attributes |-> refreshed.attributes]>>,
              device |-> refreshed]

DeviceStart(entity_id, reading) ==
    /\ device_entity_id = entity_id
    /\ real_device = reading
    /\ held_device = reading
    /\ device_log = <<>>
    /\ device_result = "none"
    /\ states_set = <<>>

DeviceInit ==
    \E entity_id \in DeviceEntityIds, reading \in Readings : DeviceStart(entity_id, reading)

\* A Device nobody updates.
DeviceIdle == DeviceStart("None", [state |-> "off", attributes |-> "dim"])

\* The real device changes
RealDeviceChanges ==
    /\ \E reading \in Readings \ {real_device} : real_device' = reading
    /\ UNCHANGED <<device_entity_id, held_device, device_log, device_result, states_set>>

\* A caller calls device.update_ha_state(hass, force_refresh)
UpdateHaState ==
    /\ \E force_refresh \in BOOLEAN, update_raises \in BOOLEAN :
          LET call == update_ha_state(device_entity_id, force_refresh, update_raises,
                                      held_device, real_device)
          IN  /\ held_device' = call.device
              /\ device_log' = call.log
              /\ device_result' = call.result
              /\ states_set' = call.sets
    /\ UNCHANGED <<device_entity_id, real_device>>

-----------------------------------------------------------------------------
(* src/app/DeviceTracker.py: update_devices, statement by statement, for calls
   that run at the same time on different threads. The records of a single
   callback (found_devices, scan_result, callback, writes, ever_found) are not
   kept here. *)

NoWrite == [device |-> "none", by |-> 0, gone_too_long |-> TRUE, home_by |-> 0]

\* The maps of get_devices_to_track() that track one device, under a name
\* different from the aggregate's.
OneDeviceMaps ==
    {m \in DeviceMaps : "alldevices" \notin Range(m) /\ Cardinality(DOMAIN m) = 1}

\* The scan results an overlapping call may be given: at most one device.
OverlapScans == {found \in ScanResults : Len(found) <= 1}

OverlapStart(cycles_found) ==
    /\ cycle_pc = [c \in Cycles |-> "idle"]
    /\ cycle_found = cycles_found
    /\ cycle_temp = [c \in Cycles |-> <<>>]
    /\ cycle_rest = [c \in Cycles |-> <<>>]
    /\ home_by = [device \in TrackableIds |-> 0]
    /\ last_not_home = NoWrite

\* No update_devices call is running.
OverlapIdle == OverlapStart([c \in Cycles |-> <<>>])

OverlapInit ==
    /\ \E temp_devices_to_track \in OneDeviceMaps :
          /\ devices_to_track = InitDevices(temp_devices_to_track)
          /\ states = InitStates(InitDevices(temp_devices_to_track))
    /\ all_devices_state = STATE_DEVICE_DEFAULT
    /\ now = StartTime
    /\ found_devices = <<>>
    /\ scan_result = "none"
    /\ callback = "idle"
    /\ writes = <<>>
    /\ ever_found = {}
    /\ OverlapIdle

\* The effect so far, in the form set_state works on
Shared == [devices |-> devices_to_track, states |-> states, all |-> all_devices_state,
           writes |-> <<>>, temp |-> <<>>]

\* update_devices is entered with a scan result: line 60
CycleStart(c) ==
    /\ cycle_pc[c] = "idle"
    /\ \E found \in OverlapScans, key_order \in KeyOrders(DOMAIN devices_to_track) :
          /\ cycle_found' = [cycle_found EXCEPT ![c] = found]
          /\ cycle_temp' = [cycle_temp EXCEPT ![c] = key_order]
    /\ cycle_pc' = [cycle_pc EXCEPT ![c] = "found"]
    /\ UNCHANGED <<tracker_vars, cycle_rest, home_by, last_not_home>>

\* One round of the first loop, lines 62-67, or its end
CycleFound(c) ==
    /\ cycle_pc[c] = "found"
    /\ IF cycle_found[c] = <<>>
       THEN /\ cycle_pc' = [cycle_pc EXCEPT ![c] = "check"]
            /\ cycle_rest' = [cycle_rest EXCEPT ![c] = cycle_temp[c]]
            /\ UNCHANGED <<devices_to_track, states, cycle_found, cycle_temp, home_by>>
       ELSE LET device == Head(cycle_found[c])
            IN  /\ cycle_found' = [cycle_found EXCEPT ![c] = Tail(cycle_found[c])]
                /\ IF device \in Range(cycle_temp[c])
                   THEN LET r == set_state(Shared, device, STATE_DEVICE_HOME, now)
                        IN  /\ cycle_temp' = [cycle_temp EXCEPT
                                                 ![c] = Remove(cycle_temp[c], device)]
                            /\ devices_to_track' = r.devices
                            /\ states' = r.states
                            /\ home_by' = [home_by EXCEPT ![device] = c]
                   ELSE UNCHANGED <<devices_to_track, states, cycle_temp, home_by>>
                /\ UNCHANGED <<cycle_pc, cycle_rest>>
    /\ UNCHANGED <<all_devices_state, now, found_devices, scan_result, callback, writes,
                   ever_found, last_not_home>>

\* The test of lines 74-75 on the next device that was not found, or the end of
\* the second loop
CycleCheck(c) ==
    /\ cycle_pc[c] = "check"
    /\ IF cycle_rest[c] = <<>>
       THEN /\ cycle_pc' = [cycle_pc EXCEPT ![c] = "aggregate"]
            /\ UNCHANGED cycle_rest
       ELSE LET device == Head(cycle_rest[c])
            IN  IF /\ get_state(states, devices_to_track[device].category)
                         = STATE_DEVICE_HOME
                   /\ GoneTooLong(now, devices_to_track[device].last_seen)
                THEN /\ cycle_pc' = [cycle_pc EXCEPT ![c] = "write"]
                     /\ UNCHANGED cycle_rest
                ELSE /\ cycle_rest' = [cycle_rest EXCEPT ![c] = Tail(cycle_rest[c])]
                     /\ UNCHANGED cycle_pc
    /\ UNCHANGED <<tracker_vars, cycle_found, cycle_temp, home_by, last_not_home>>

\* Line 77, after the test held: self.set_state(device, STATE_DEVICE_NOT_HOME)
CycleWriteNotHome(c) ==
    /\ cycle_pc[c] = "write"
    /\ LET device == Head(cycle_rest[c])
           r      == set_state(Shared, device, STATE_DEVICE_NOT_HOME, now)
       IN  /\ devices_to_track' = r.devices
           /\ states' = r.states
           /\ last_not_home' = [device |-> device, by |-> c,
                                gone_too_long |->
                                    GoneTooLong(now, devices_to_track[device].last_seen),
                                home_by |-> home_by[device]]
    /\ cycle_rest' = [cycle_rest EXCEPT ![c] = Tail(cycle_rest[c])]
    /\ cycle_pc' = [cycle_pc EXCEPT ![c] = "check"]
    /\ UNCHANGED <<all_devices_state, now, found_devices, scan_result, callback, writes,
                   ever_found, cycle_found, cycle_temp, home_by>>

\* Lines 81-85: the aggregate is computed and written, and the call returns
CycleAggregate(c) ==
    /\ cycle_pc[c] = "aggregate"
    /\ LET states_of_devices ==
               {get_state(states, devices_to_track[device].category) :
                   device \in DOMAIN devices_to_track}
           r == SetAllDevicesState(Shared, AllDevicesState(states_of_devices))
       IN  /\ states' = r.states
           /\ all_devices_state' = r.all
    /\ cycle_pc' = [cycle_pc EXCEPT ![c] = "idle"]
    /\ cycle_temp' = [cycle_temp EXCEPT ![c] = <<>>]
    /\ UNCHANGED <<devices_to_track, now, found_devices, scan_result, callback, writes,
                   ever_found, cycle_found, cycle_rest, home_by, last_not_home>>

\* Time passes
ClockAdvances ==
    /\ \E step \in ScanSteps :
          /\ now + step <= StartTime + Horizon
          /\ now' = now + step
    /\ UNCHANGED <<devices_to_track, states, all_devices_state, found_devices, scan_result,
                   callback, writes, ever_found, overlap_vars>>

-----------------------------------------------------------------------------
(* src/homeassistant/components/light.py: setup *)

MIN_TIME_BETWEEN_SCANS == 10

\* update_light_state, lines 67-72: the AttributeError of a missing last_updated
\* makes should_update True
ShouldUpdate(last, t) ==
    IF last = None THEN TRUE ELSE t - last > MIN_TIME_BETWEEN_SCANS

\* setup() has returned: its own update_light_state(None) of line 91 polled the
\* lights at second 0
LightStart(on) ==
    /\ light_clock = 0
    /\ last_updated = 0
    /\ light_pc = [c \in LightCallers |-> "idle"]
    /\ light_on = on
    /\ light_state = on
    /\ last_poll = 0
    /\ prev_poll = None

LightInit == \E on \in BOOLEAN : LightStart(on)

\* Lights nobody polls.
LightIdle == LightStart(FALSE)

\* The timer of line 89 fires, at second 0 or 30 of a minute
TimerFires ==
    /\ light_pc["timer"] = "idle"
    /\ light_clock % 30 = 0
    /\ light_pc' = [light_pc EXCEPT !["timer"] = "called"]
    /\ UNCHANGED <<light_clock, last_updated, light_on, light_state, last_poll, prev_poll>>

\* handle_light_service, lines 101-109: the light is turned on or off, then
\* update_light_state(None) is called
HandleLightService ==
    /\ light_pc["service"] = "idle"
    /\ \E on \in BOOLEAN : light_on' = on
    /\ light_pc' = [light_pc EXCEPT !["service"] = "called"]
    /\ UNCHANGED <<light_clock, last_updated, light_state, last_poll, prev_poll>>

\* update_light_state, lines 67-74: the test of last_updated
LightTest(c) ==
    /\ light_pc[c] = "called"
    /\ light_pc' = [light_pc EXCEPT
                       ![c] = IF ShouldUpdate(last_updated, light_clock)
                              THEN "update" ELSE "idle"]
    /\ UNCHANGED <<light_clock, last_updated, light_on, light_state, last_poll, prev_poll>>

\* update_light_state, lines 75-77: last_updated is set and the poll starts
LightStamp(c) ==
    /\ light_pc[c] = "update"
    /\ last_updated' = light_clock
    /\ prev_poll' = last_poll
    /\ last_poll' = light_clock
    /\ light_pc' = [light_pc EXCEPT ![c] = "poll"]
    /\ UNCHANGED <<light_clock, light_on, light_state>>

\* update_light_state, lines 79-87: is_light_on is read and the State is set
LightPoll(c) ==
    /\ light_pc[c] = "poll"
    /\ light_state' = light_on
    /\ light_pc' = [light_pc EXCEPT ![c] = "idle"]
    /\ UNCHANGED <<light_clock, last_updated, light_on, last_poll, prev_poll>>

\* Time passes
LightTick ==
    /\ \E step \in LightSteps :
          /\ light_clock + step <= MaxLightClock
          /\ light_clock' = light_clock + step
    /\ UNCHANGED <<last_updated, light_pc, light_on, light_state, last_poll, prev_poll>>

-----------------------------------------------------------------------------
(* The specifications *)

\* The presence reconciler, driven by its time-change callback.
Init == TrackerInit /\ PoolIdle /\ ThrottleIdle /\ RemoteIdle /\ ZoneIdle /\ TimeEventIdle /\ UniqueIdle /\ DeviceIdle /\ OverlapIdle /\ LightIdle

Next ==
    \/ ScanCycle /\ UNCHANGED <<pool_vars, throttle_vars, remote_vars, zone_vars, scheduler_vars, unique_vars, device_vars, overlap_vars, light_vars>>
    \/ ScanRaises /\ UNCHANGED <<pool_vars, throttle_vars, remote_vars, zone_vars, scheduler_vars, unique_vars, device_vars, overlap_vars, light_vars>>

Spec == Init /\ [][Next]_vars

\* The worker pool with its workers, its clients and one stop() caller.
PoolSpecInit == TrackerIdle /\ PoolInit /\ ThrottleIdle /\ RemoteIdle /\ ZoneIdle /\ TimeEventIdle /\ UniqueIdle /\ DeviceIdle /\ OverlapIdle /\ LightIdle

PoolSpecNext ==
    \/ AddJob /\ UNCHANGED <<tracker_vars, throttle_vars, remote_vars, zone_vars, scheduler_vars, unique_vars, device_vars, overlap_vars, light_vars>>
    \/ \E w \in Workers : WorkerGet(w) /\ UNCHANGED <<tracker_vars, throttle_vars, remote_vars, zone_vars, scheduler_vars, unique_vars, device_vars, overlap_vars, light_vars>>
    \/ \E w \in Workers : WorkerReturn(w) /\ UNCHANGED <<tracker_vars, throttle_vars, remote_vars, zone_vars, scheduler_vars, unique_vars, device_vars, overlap_vars, light_vars>>
    \/ \E w \in Workers : WorkerRaise(w) /\ UNCHANGED <<tracker_vars, throttle_vars, remote_vars, zone_vars, scheduler_vars, unique_vars, device_vars, overlap_vars, light_vars>>
    \/ StopBegin /\ UNCHANGED <<tracker_vars, throttle_vars, remote_vars, zone_vars, scheduler_vars, unique_vars, device_vars, overlap_vars, light_vars>>
    \/ StopClearCheck /\ UNCHANGED <<tracker_vars, throttle_vars, remote_vars, zone_vars, scheduler_vars, unique_vars, device_vars, overlap_vars, light_vars>>
    \/ StopClearGet /\ UNCHANGED <<tracker_vars, throttle_vars, remote_vars, zone_vars, scheduler_vars, unique_vars, device_vars, overlap_vars, light_vars>>
    \/ StopAddQuit /\ UNCHANGED <<tracker_vars, throttle_vars, remote_vars, zone_vars, scheduler_vars, unique_vars, device_vars, overlap_vars, light_vars>>
    \/ StopSetRunning /\ UNCHANGED <<tracker_vars, throttle_vars, remote_vars, zone_vars, scheduler_vars, unique_vars, device_vars, overlap_vars, light_vars>>
    \/ StopJoin /\ UNCHANGED <<tracker_vars, throttle_vars, remote_vars, zone_vars, scheduler_vars, unique_vars, device_vars, overlap_vars, light_vars>>
    \/ BlockTillDoneCall /\ UNCHANGED <<tracker_vars, throttle_vars, remote_vars, zone_vars, scheduler_vars, unique_vars, device_vars, overlap_vars, light_vars>>
    \/ BlockTillDoneReturn /\ UNCHANGED <<tracker_vars, throttle_vars, remote_vars, zone_vars, scheduler_vars, unique_vars, device_vars, overlap_vars, light_vars>>

PoolSpec == PoolSpecInit /\ [][PoolSpecNext]_vars

\* Every worker a pool can have.
AllWorkers == UNION {1..count : count \in WorkerCounts}

\* The worker threads are scheduled: a worker that can take an item from the queue
\* does, and job_handler(job) ends, by returning or by raising.
PoolFairness ==
    \A w \in AllWorkers :
        /\ WF_pool_vars(w \in Workers /\ WorkerGet(w))
        /\ WF_pool_vars(w \in Workers /\ (WorkerReturn(w) \/ WorkerRaise(w)))

\* The pool with its worker threads scheduled.
PoolFairSpec == PoolSpecInit /\ [][PoolSpecNext]_vars /\ PoolFairness

\* A throttled method, the threads that call it and the clock.
ThrottleSpecInit == TrackerIdle /\ PoolIdle /\ ThrottleInit /\ RemoteIdle /\ ZoneIdle /\ TimeEventIdle /\ UniqueIdle /\ DeviceIdle /\ OverlapIdle /\ LightIdle

ThrottleSpecNext ==
    \/ \E t \in Threads : Call(t) /\ UNCHANGED <<tracker_vars, pool_vars, remote_vars, zone_vars, scheduler_vars, unique_vars, device_vars, overlap_vars, light_vars>>
    \/ \E t \in Threads : MethodReturn(t) /\ UNCHANGED <<tracker_vars, pool_vars, remote_vars, zone_vars, scheduler_vars, unique_vars, device_vars, overlap_vars, light_vars>>
    \/ \E t \in Threads : MethodRaise(t) /\ UNCHANGED <<tracker_vars, pool_vars, remote_vars, zone_vars, scheduler_vars, unique_vars, device_vars, overlap_vars, light_vars>>
    \/ Tick /\ UNCHANGED <<tracker_vars, pool_vars, remote_vars, zone_vars, scheduler_vars, unique_vars, device_vars, overlap_vars, light_vars>>

ThrottleSpec == ThrottleSpecInit /\ [][ThrottleSpecNext]_vars

\* A remote Bus and a remote StateMachine, and the threads that use them.
RemoteSpecInit == TrackerIdle /\ PoolIdle /\ ThrottleIdle /\ RemoteInit /\ ZoneIdle /\ TimeEventIdle /\ UniqueIdle /\ DeviceIdle /\ OverlapIdle /\ LightIdle

RemoteSpecNext ==
    \/ Services /\ UNCHANGED <<tracker_vars, pool_vars, throttle_vars, zone_vars, scheduler_vars, unique_vars, device_vars, overlap_vars, light_vars>>
    \/ EventListeners /\ UNCHANGED <<tracker_vars, pool_vars, throttle_vars, zone_vars, scheduler_vars, unique_vars, device_vars, overlap_vars, light_vars>>
    \/ CallService /\ UNCHANGED <<tracker_vars, pool_vars, throttle_vars, zone_vars, scheduler_vars, unique_vars, device_vars, overlap_vars, light_vars>>
    \/ FireEvent /\ UNCHANGED <<tracker_vars, pool_vars, throttle_vars, zone_vars, scheduler_vars, unique_vars, device_vars, overlap_vars, light_vars>>
    \/ EntityIds /\ UNCHANGED <<tracker_vars, pool_vars, throttle_vars, zone_vars, scheduler_vars, unique_vars, device_vars, overlap_vars, light_vars>>
    \/ GetState /\ UNCHANGED <<tracker_vars, pool_vars, throttle_vars, zone_vars, scheduler_vars, unique_vars, device_vars, overlap_vars, light_vars>>
    \/ \E c \in Clients : SetStateCall(c) /\ UNCHANGED <<tracker_vars, pool_vars, throttle_vars, zone_vars, scheduler_vars, unique_vars, device_vars, overlap_vars, light_vars>>
    \/ \E c \in Clients : SetStateAcquire(c) /\ UNCHANGED <<tracker_vars, pool_vars, throttle_vars, zone_vars, scheduler_vars, unique_vars, device_vars, overlap_vars, light_vars>>
    \/ \E c \in Clients : SetStateResponse(c) /\ UNCHANGED <<tracker_vars, pool_vars, throttle_vars, zone_vars, scheduler_vars, unique_vars, device_vars, overlap_vars, light_vars>>

RemoteSpec == RemoteSpecInit /\ [][RemoteSpecNext]_vars

\* One zone automation rule: its trigger, its condition and the entity's state changes.
ZoneSpecInit == TrackerIdle /\ PoolIdle /\ ThrottleIdle /\ RemoteIdle /\ ZoneInit /\ TimeEventIdle /\ UniqueIdle /\ DeviceIdle /\ OverlapIdle /\ LightIdle

ZoneSpecNext ==
    \/ Trigger /\ UNCHANGED <<tracker_vars, pool_vars, throttle_vars, remote_vars, scheduler_vars, unique_vars, device_vars, overlap_vars, light_vars>>
    \/ StateChanged /\ UNCHANGED <<tracker_vars, pool_vars, throttle_vars, remote_vars, scheduler_vars, unique_vars, device_vars, overlap_vars, light_vars>>
    \/ IfAction /\ UNCHANGED <<tracker_vars, pool_vars, throttle_vars, remote_vars, scheduler_vars, unique_vars, device_vars, overlap_vars, light_vars>>
    \/ IfInZone /\ UNCHANGED <<tracker_vars, pool_vars, throttle_vars, remote_vars, scheduler_vars, unique_vars, device_vars, overlap_vars, light_vars>>

ZoneSpec == ZoneSpecInit /\ [][ZoneSpecNext]_vars

\* One time event of a schedule, scheduled once.
TimeEventSpecInit ==
    TrackerIdle /\ PoolIdle /\ ThrottleIdle /\ RemoteIdle /\ ZoneIdle /\ TimeEventInit /\ UniqueIdle /\ DeviceIdle /\ OverlapIdle /\ LightIdle

TimeEventSpecNext ==
    \/ ScheduleBegin /\ UNCHANGED <<tracker_vars, pool_vars, throttle_vars, remote_vars, zone_vars, unique_vars, device_vars, overlap_vars, light_vars>>
    \/ ScheduleLoop /\ UNCHANGED <<tracker_vars, pool_vars, throttle_vars, remote_vars, zone_vars, unique_vars, device_vars, overlap_vars, light_vars>>
    \/ ScheduleRegister /\ UNCHANGED <<tracker_vars, pool_vars, throttle_vars, remote_vars, zone_vars, unique_vars, device_vars, overlap_vars, light_vars>>

TimeEventSpec == TimeEventSpecInit /\ [][TimeEventSpecNext]_vars

\* One call of ensure_unique_string.
UniqueSpecInit ==
    /\ TrackerIdle /\ PoolIdle /\ ThrottleIdle /\ RemoteIdle /\ ZoneIdle /\ TimeEventIdle
    /\ UniqueInit /\ DeviceIdle /\ OverlapIdle /\ LightIdle

UniqueSpecNext ==
    \/ UniqueLoop /\ UNCHANGED <<tracker_vars, pool_vars, throttle_vars, remote_vars, zone_vars, scheduler_vars, device_vars, overlap_vars, light_vars>>
    \/ UniqueReturn /\ UNCHANGED <<tracker_vars, pool_vars, throttle_vars, remote_vars, zone_vars, scheduler_vars, device_vars, overlap_vars, light_vars>>

UniqueSpec == UniqueSpecInit /\ [][UniqueSpecNext]_vars

\* One Device, its real device and the callers of update_ha_state.
DeviceSpecInit ==
    /\ TrackerIdle /\ PoolIdle /\ ThrottleIdle /\ RemoteIdle /\ ZoneIdle /\ TimeEventIdle
    /\ UniqueIdle /\ DeviceInit /\ OverlapIdle /\ LightIdle

DeviceSpecNext ==
    \/ RealDeviceChanges /\ UNCHANGED <<tracker_vars, pool_vars, throttle_vars, remote_vars, zone_vars, scheduler_vars, unique_vars, overlap_vars, light_vars>>
    \/ UpdateHaState /\ UNCHANGED <<tracker_vars, pool_vars, throttle_vars, remote_vars, zone_vars, scheduler_vars, unique_vars, overlap_vars, light_vars>>

DeviceSpec == DeviceSpecInit /\ [][DeviceSpecNext]_vars

\* A DeviceTracker whose update_devices calls run on worker threads, two at a time.
OverlapSpecInit ==
    /\ OverlapInit /\ PoolIdle /\ ThrottleIdle /\ RemoteIdle /\ ZoneIdle /\ TimeEventIdle
    /\ UniqueIdle /\ DeviceIdle /\ LightIdle

OverlapSpecNext ==
    \/ \E c \in Cycles : CycleStart(c) /\ UNCHANGED <<pool_vars, throttle_vars, remote_vars, zone_vars, scheduler_vars, unique_vars, device_vars, light_vars>>
    \/ \E c \in Cycles : CycleFound(c) /\ UNCHANGED <<pool_vars, throttle_vars, remote_vars, zone_vars, scheduler_vars, unique_vars, device_vars, light_vars>>
    \/ \E c \in Cycles : CycleCheck(c) /\ UNCHANGED <<pool_vars, throttle_vars, remote_vars, zone_vars, scheduler_vars, unique_vars, device_vars, light_vars>>
    \/ \E c \in Cycles : CycleWriteNotHome(c) /\ UNCHANGED <<pool_vars, throttle_vars, remote_vars, zone_vars, scheduler_vars, unique_vars, device_vars, light_vars>>
    \/ \E c \in Cycles : CycleAggregate(c) /\ UNCHANGED <<pool_vars, throttle_vars, remote_vars, zone_vars, scheduler_vars, unique_vars, device_vars, light_vars>>
    \/ ClockAdvances /\ UNCHANGED <<pool_vars, throttle_vars, remote_vars, zone_vars, scheduler_vars, unique_vars, device_vars, light_vars>>

OverlapSpec == OverlapSpecInit /\ [][OverlapSpecNext]_vars

\* The light component after setup(), its timer and its service handler.
LightSpecInit ==
    /\ TrackerIdle /\ PoolIdle /\ ThrottleIdle /\ RemoteIdle /\ ZoneIdle /\ TimeEventIdle
    /\ UniqueIdle /\ DeviceIdle /\ OverlapIdle /\ LightInit

LightSpecNext ==
    \/ TimerFires /\ UNCHANGED <<tracker_vars, pool_vars, throttle_vars, remote_vars, zone_vars, scheduler_vars, unique_vars, device_vars, overlap_vars>>
    \/ HandleLightService /\ UNCHANGED <<tracker_vars, pool_vars, throttle_vars, remote_vars, zone_vars, scheduler_vars, unique_vars, device_vars, overlap_vars>>
    \/ \E c \in LightCallers : LightTest(c) /\ UNCHANGED <<tracker_vars, pool_vars, throttle_vars, remote_vars, zone_vars, scheduler_vars, unique_vars, device_vars, overlap_vars>>
    \/ \E c \in LightCallers : LightStamp(c) /\ UNCHANGED <<tracker_vars, pool_vars, throttle_vars, remote_vars, zone_vars, scheduler_vars, unique_vars, device_vars, overlap_vars>>
    \/ \E c \in LightCallers : LightPoll(c) /\ UNCHANGED <<tracker_vars, pool_vars, throttle_vars, remote_vars, zone_vars, scheduler_vars, unique_vars, device_vars, overlap_vars>>
    \/ LightTick /\ UNCHANGED <<tracker_vars, pool_vars, throttle_vars, remote_vars, zone_vars, scheduler_vars, unique_vars, device_vars, overlap_vars>>

LightSpec == LightSpecInit /\ [][LightSpecNext]_vars

-----------------------------------------------------------------------------
(* The presence reconciler's claims, under Spec *)

Tracked == DOMAIN devices_to_track

\* The State of a tracked device: the state machine's entry for its category
DeviceState(device) == get_state(states, devices_to_track[device].category)

\* The statemachine.set_state calls of the latest callback before its last one
DeviceWrites == SubSeq(writes, 1, Len(writes) - 1)

\* C1: a cycle takes a tracked device from home to not_home only if the device is
\* absent from found_devices and now - last_seen > 70 seconds; a home device absent
\* for 70 seconds or less is still home after the cycle.
C1_NotHomeOnlyAfterGrace ==
    [][callback' = "returned" =>
         \A device \in Tracked :
            (/\ DeviceState(device) = STATE_DEVICE_HOME
             /\ states'[devices_to_track[device].category] = STATE_DEVICE_NOT_HOME)
            => /\ device \notin Range(found_devices')
               /\ now' - devices_to_track[device].last_seen
                      > TIME_SPAN_FOR_ERROR_IN_SCANNING]_vars

\* C2: after a completed update_devices(found_devices), every tracked device in
\* found_devices has State home and a last_seen equal to the time of the call.
C2_FoundDevicesAreHome ==
    callback = "returned" =>
        \A device \in Tracked :
            device \in Range(found_devices)
            => /\ DeviceState(device) = STATE_DEVICE_HOME
               /\ devices_to_track[device].last_seen = now

\* C3: a tracked device that is absent from found_devices, home, and last seen more
\* than 70 seconds ago has State not_home when update_devices returns.
C3_GoneDeviceBecomesNotHome ==
    [][callback' = "returned" =>
         \A device \in Tracked :
            (/\ device \notin Range(found_devices')
             /\ DeviceState(device) = STATE_DEVICE_HOME
             /\ now' - devices_to_track[device].last_seen
                    > TIME_SPAN_FOR_ERROR_IN_SCANNING)
            => states'[devices_to_track[device].category] = STATE_DEVICE_NOT_HOME]_vars

\* C4: after a completed update_devices, device.alldevices is home if and only if
\* some tracked device's State is home, and not_home otherwise (an empty tracked
\* set included); all_devices_state holds the same value.
C4_AggregateIffAnyHome ==
    callback = "returned" =>
        /\ get_state(states, STATE_CATEGORY_ALL_DEVICES)
              \in {STATE_DEVICE_HOME, STATE_DEVICE_NOT_HOME}
        /\ get_state(states, STATE_CATEGORY_ALL_DEVICES) = STATE_DEVICE_HOME
              <=> \E device \in Tracked : DeviceState(device) = STATE_DEVICE_HOME
        /\ all_devices_state = get_state(states, STATE_CATEGORY_ALL_DEVICES)

\* C4's case: a cycle left one tracked device home and another not home, and the
\* aggregate home.
C4_Witness ==
    /\ callback = "returned"
    /\ get_state(states, STATE_CATEGORY_ALL_DEVICES) = STATE_DEVICE_HOME
    /\ \E device \in Tracked : DeviceState(device) = STATE_DEVICE_HOME
    /\ \E device \in Tracked : DeviceState(device) = STATE_DEVICE_NOT_HOME

\* C5: when scan_devices() raises, the error does not leave the time-change
\* callback, no tracked device's State changes to not_home and no last_seen changes.
C5_ScanErrorSwallowed ==
    [][scan_result' = "error" =>
         /\ callback' = "returned"
         /\ \A device \in Tracked :
               /\ devices_to_track'[device].last_seen = devices_to_track[device].last_seen
               /\ states'[devices_to_track[device].category] = STATE_DEVICE_NOT_HOME
                     => DeviceState(device) = STATE_DEVICE_NOT_HOME]_vars

\* C6: a tracked device that no scan result has held has State not_home, at
\* creation and after every update_devices call.
C6_NeverSeenStaysNotHome ==
    \A device \in Tracked :
        device \notin ever_found => DeviceState(device) = STATE_DEVICE_NOT_HOME

C8_TrackedSetAndLastSeenFrame ==
    [][/\ DOMAIN devices_to_track' = DOMAIN devices_to_track
       /\ \A device \in Tracked :
             /\ devices_to_track'[device].name = devices_to_track[device].name
             /\ devices_to_track'[device].category = devices_to_track[device].category
       /\ callback' = "returned" =>
             LET device_writes == SubSeq(writes', 1, Len(writes') - 1)
             IN  /\ \A i \in DOMAIN device_writes :
                       \E device \in Tracked :
                          /\ device_writes[i].category = devices_to_track[device].category
                          /\ device_writes[i].state = STATE_DEVICE_HOME
                                => device \in Range(found_devices')
                 /\ Cardinality({i \in DOMAIN device_writes :
                                    device_writes[i].state = STATE_DEVICE_HOME})
                       = Cardinality(Tracked \cap Range(found_devices'))
                 /\ \A device \in Tracked :
                       devices_to_track'[device].last_seen
                           # devices_to_track[device].last_seen
                       => /\ device \in Range(found_devices')
                          /\ devices_to_track'[device].last_seen = now'
                          /\ \E i \in DOMAIN device_writes :
                                device_writes[i] =
                                    [category |-> devices_to_track[device].category,
                                     state |-> STATE_DEVICE_HOME, by |-> "set_state"]
       /\ callback' # "returned" =>
             \A device \in Tracked :
                devices_to_track'[device].last_seen = devices_to_track[device].last_seen]_vars

\* C8's case: a cycle whose scan result held the untracked "d3" beside a tracked
\* device wrote that device's category and the aggregate, and nothing else.
C8_Witness ==
    /\ callback = "returned"
    /\ "d3" \in Range(found_devices)
    /\ Tracked \cap Range(found_devices) # {}
    /\ Len(writes) = 2
    /\ \E device \in Tracked : devices_to_track[device].last_seen = now

-----------------------------------------------------------------------------
(* The worker pool's claims, under PoolSpec *)

\* The jobs add_job accepted
Accepted == DOMAIN jobs

\* The worker threads still running
LiveWorkers == {w \in Workers : worker_pc[w] \in {"get", "handle"}}

\* C9 as stated: when stop() has returned, every job add_job accepted has been
\* passed to job_handler.
C9_StopDrains ==
    stop_pc = "done" =>
        \A j \in Accepted : jobs[j].status \in {"handling", "handled", "raised"}

\* C9 as amended: once stop() is past its clearing loop no accepted job is left in
\* the queue for a worker to take; and when stop() has returned, every worker has
\* quit, the queue is empty, and every accepted job either was taken by a worker
\* before stop() reached it, and its job_handler call has returned, or was removed
\* from the queue by stop() and never passed to job_handler.
C9_StopClearsQueue ==
    /\ stop_pc \in {"quit_tasks", "join", "done"} =>
          /\ \A j \in Accepted : jobs[j].status # "queued"
          /\ \A queued \in work_queue : queued.item = quit_task
    /\ stop_pc = "done" =>
          /\ \A j \in Accepted : jobs[j].status \in {"handled", "cleared"}
          /\ \A w \in Workers : worker_pc[w] = "quit"
          /\ work_queue = {}
          /\ current_jobs = {}

\* C9's case: stop() has returned after dropping one accepted job, another
\* having been handled.
C9_Witness ==
    /\ stop_pc = "done"
    /\ \E j \in Accepted : jobs[j].status = "cleared"
    /\ \E j \in Accepted : jobs[j].status = "handled"

\* C10: after a job_handler call raised, and while nobody stops the pool, all
\* worker_count workers are alive, and block_till_done can return as soon as no
\* job is queued or being handled.
C10_RaiseKeepsWorker ==
    (stop_pc = "idle" /\ \E j \in Accepted : jobs[j].status = "raised") =>
        /\ Cardinality(LiveWorkers) = worker_count
        /\ (work_queue = {} /\ \A j \in Accepted : jobs[j].status # "handling")
              => JoinReturns

\* C11: once stop() has completed, every add_job call raises RuntimeError and
\* enqueues nothing; while the pool is running no add_job call raises RuntimeError.
C11_AddJobAfterStopRaises ==
    [][/\ stop_pc = "done" =>
             /\ ~running /\ ~running'
             /\ last_add' # last_add => last_add' = "RuntimeError"
             /\ jobs' = jobs
             /\ work_queue' = work_queue
             /\ unfinished_tasks' = unfinished_tasks
       /\ running => last_add' # "RuntimeError"]_vars

\* C11's case: stop() has returned, with jobs accepted before it, and an add_job
\* call after it raised RuntimeError.
C11_Witness ==
    /\ stop_pc = "done"
    /\ Accepted # {}
    /\ last_add = "RuntimeError"

\* C12: block_till_done does not return while a job accepted before the call is
\* still queued or still inside job_handler; when it returns, the queue is empty
\* and no worker is inside job_handler.
C12_BlockTillDoneWaits ==
    [][(wait_pc = "blocked" /\ wait_pc' = "returned") =>
         /\ \A j \in 1..wait_seen : jobs[j].status \notin {"queued", "handling"}
         /\ work_queue = {}
         /\ \A w \in Workers : worker_pc[w] # "handle"]_vars

\* C12's case: block_till_done has returned from a call made after two jobs were
\* accepted, both handled, with nobody stopping the pool.
C12_Witness ==
    /\ wait_pc = "returned"
    /\ stop_pc = "idle"
    /\ wait_seen >= 2
    /\ \A j \in 1..wait_seen : jobs[j].status = "handled"

\* C13: current_jobs never holds more than worker_count jobs: it holds exactly the
\* jobs of the workers that are inside job_handler or died there.
C13_CurrentJobsBounded ==
    /\ Cardinality(current_jobs) <= worker_count
    /\ current_jobs = {worker_job[w] : w \in {v \in Workers : worker_job[v] # 0}}
    /\ \A w \in Workers : worker_pc[w] = "handle" => worker_job[w] \in current_jobs

\* C13's case: every worker of a two-worker pool is inside job_handler while
\* another job waits in the queue.
C13_Witness ==
    /\ worker_count = 2
    /\ \A w \in Workers : worker_pc[w] = "handle"
    /\ Cardinality(current_jobs) = worker_count
    /\ \E queued \in work_queue : queued.item # quit_task

\* C14: the busy_callback is invoked only by an add_job that leaves more items in
\* the queue than busy_warning_limit; each invocation doubles the limit, which
\* starts at worker_count squared and never decreases, so that the k-th invocation
\* sees more than worker_count^2 * 2^(k-1) items.
C14_BusyCallbackDoubling ==
    /\ busy_warning_limit = worker_count * worker_count * 2 ^ Len(busy_calls)
    /\ \A k \in DOMAIN busy_calls :
          busy_calls[k] > worker_count * worker_count * 2 ^ (k - 1)
    /\ ~has_busy_callback => busy_calls = <<>>

\* C14's case: the busy_callback has been invoked twice, the second time for a
\* deeper queue than the first.
C14_Witness ==
    /\ Len(busy_calls) = 2
    /\ busy_calls[2] > busy_calls[1]
    /\ busy_warning_limit = 4 * worker_count * worker_count

\* C15: when a worker takes an item from the queue, no item left in the queue has
\* a strictly smaller priority number than the one taken.
C15_SmallestPriorityFirst ==
    [][\A w \in Workers :
          (worker_pc[w] = "get" /\ worker_pc'[w] # "get") =>
              \E got \in work_queue \ work_queue' :
                  /\ work_queue' = work_queue \ {got}
                  /\ \A left \in work_queue' : left.priority >= got.priority]_vars

\* C15's case: a worker is handling a job it took ahead of a job that was accepted
\* earlier with a larger priority number and is still queued.
C15_Witness ==
    \E w \in Workers :
        /\ worker_pc[w] = "handle"
        /\ \E queued \in work_queue :
              /\ queued.item # quit_task
              /\ queued.item < worker_job[w]
              /\ queued.priority > jobs[worker_job[w]].priority

-----------------------------------------------------------------------------
(* The Throttle decorator's claims, under ThrottleSpec *)

\* The step in which thread t calls the wrapper
Calls(t) == calls' = calls + 1 /\ caller' = t

\* C16: a call without no_throttle made while no more than min_time has passed
\* since the decorated method last returned does not run the method and returns
\* None; so no call without no_throttle starts the method within min_time of its
\* previous return.
C16_ThrottledWithinMinTime ==
    [][\A t \in Threads :
          /\ (Calls(t) /\ ~th_arg'[t] /\ last_return # None
                /\ clock - last_return <= min_time)
             => /\ th_pc'[t] = "idle"
                /\ th_result'[t] = "None"
                /\ last_return' = last_return
          /\ (th_pc[t] = "idle" /\ th_pc'[t] = "method" /\ ~th_arg'[t]
                /\ last_return # None)
             => clock - last_return > min_time]_vars

\* C16's case: the latest call, without no_throttle, came exactly min_time after
\* the method's previous return and returned None.
C16_Witness ==
    /\ caller \in Threads
    /\ ~th_arg[caller]
    /\ th_result[caller] = "None"
    /\ last_return # None
    /\ called_at - last_return = min_time

\* C17: without limit_no_throttle, every call passing no_throttle=True runs the
\* decorated method however recently it last ran; when the method returns, the
\* call returns its result and last_call is the time of the return.
C17_NoThrottleAlwaysRuns ==
    [][\A t \in Threads :
          /\ (Calls(t) /\ th_arg'[t] /\ limit_no_throttle = None)
             => th_pc'[t] = "method"
          /\ (th_pc[t] = "method" /\ th_arg[t] /\ limit_no_throttle = None
                /\ th_result'[t] = "result")
             => last_call' = clock']_vars

\* C18: with limit_no_throttle, a call passing no_throttle=True made no more than
\* limit_no_throttle after the decorated method last returned does not run the
\* method and returns None; one made more than limit_no_throttle after it runs
\* the method.
C18_NoThrottleLimited ==
    [][\A t \in Threads :
          (Calls(t) /\ th_arg'[t] /\ limit_no_throttle # None /\ last_return # None)
          => IF clock - last_return <= limit_no_throttle
             THEN /\ th_pc'[t] = "idle"
                  /\ th_result'[t] = "None"
                  /\ last_return' = last_return
             ELSE th_pc'[t] = "method"]_vars

\* C18's case: the latest call passed no_throttle=True exactly limit_no_throttle
\* after the method's previous return, within min_time of it, and returned None.
C18_Witness ==
    /\ caller \in Threads
    /\ th_arg[caller]
    /\ th_result[caller] = "None"
    /\ limit_no_throttle # None
    /\ last_return # None
    /\ called_at - last_return = limit_no_throttle

-----------------------------------------------------------------------------
(* The remote Bus and StateMachine's claims, under RemoteSpec *)

\* The operations that talk to the API
ApiOperations == {"services", "event_listeners", "call_service", "fire_event",
                  "entity_ids", "set_state", "get_state"}

\* C19: whichever of services, event_listeners, call_service, fire_event,
\* entity_ids, set_state and get_state meets a connection error while it talks to
\* the server ends by raising HomeAssistantError to its caller.
C19_ConnectionErrorRaised ==
    (remote_op.op \in ApiOperations /\ remote_op.transport = ConnectionFailure)
        => remote_op.raised = "HomeAssistantError"

\* C19's case: entity_ids, whose own handlers return an empty list, met a
\* connection error and raised HomeAssistantError.
C19_Witness ==
    /\ remote_op.op = "entity_ids"
    /\ remote_op.transport = ConnectionFailure
    /\ remote_op.raised = "HomeAssistantError"

\* C20: at most one set_state request is in flight at a time, and the lock is
\* held only by a call that is still in flight: after every outcome of a set_state
\* call the lock is free, so a set_state that failed never blocks a later one.
C20_SetStateLockReleased ==
    /\ Cardinality({c \in Clients : client_pc[c] = "request"}) <= 1
    /\ lock_holder # 0 => client_pc[lock_holder] = "request"

-----------------------------------------------------------------------------
(* The zone automation's claims, under ZoneSpec *)

\* Whether a State lies in the configured zone
InConfiguredZone(state) == state.exists /\ state.located /\ state.zone = zone_entity_id

\* C21: the action is never called on the call stack of the state-changed
\* listener that triggered it: zone_automation_listener does not call action()
\* itself.
C21_ActionNotInline ==
    action_called => action_stack # "zone_automation_listener"

\* C22: evaluating the zone condition for an entity id that has no State does not
\* raise: if_in_zone() ends as not passed.
C22_UnknownEntityNotPassed ==
    (condition_result # "none" /\ ~condition_state.exists)
        => condition_result \in {"None", "False"}

\* C23 as stated: a state change calls the action exactly when the event is
\* enter, the old state is not in the configured zone (or there is none) and the
\* new state is in it, or the event is leave, the old state is in the configured
\* zone and the new state is not; a trigger whose config lacks entity_id or zone
\* returns False, registers no listener and never calls the action.
C23_ActionExactlyOnCrossing ==
    /\ action_called <=>
          \/ /\ zone_config.event = EVENT_ENTER
             /\ ~InConfiguredZone(change.from_s)
             /\ InConfiguredZone(change.to_s)
          \/ /\ zone_config.event = EVENT_LEAVE
             /\ InConfiguredZone(change.from_s)
             /\ ~InConfiguredZone(change.to_s)
    /\ MissingKey(zone_config) =>
          /\ trigger_result \in {"none", "False"}
          /\ ~listener_registered
          /\ ~action_called

\* C23 as amended: the same, for the state changes whose new state has a latitude
\* and a longitude and whose old state, when there is one, has them too; a state
\* change with a state that lacks either never calls the action.
C23_ActionOnCrossingOfPositions ==
    /\ action_called <=>
          /\ change.to_s.located
          /\ change.from_s.exists => change.from_s.located
          /\ \/ /\ zone_config.event = EVENT_ENTER
                /\ ~InConfiguredZone(change.from_s)
                /\ InConfiguredZone(change.to_s)
             \/ /\ zone_config.event = EVENT_LEAVE
                /\ InConfiguredZone(change.from_s)
                /\ ~InConfiguredZone(change.to_s)
    /\ MissingKey(zone_config) =>
          /\ trigger_result \in {"none", "False"}
          /\ ~listener_registered
          /\ ~action_called

\* C23's case: an enter rule called its action for an entity's first state, in
\* the configured zone.
C23_Witness ==
    /\ zone_config.event = EVENT_ENTER
    /\ ~change.from_s.exists
    /\ InConfiguredZone(change.to_s)
    /\ action_called

-----------------------------------------------------------------------------
(* The scheduler time event's claims, under TimeEventSpec *)

\* Whether t is a time the event may run at: at the configured time of day, on a
\* day of the schedule, and not before the clock reading current
Runnable(t, current) ==
    /\ t >= current
    /\ t % TicksPerDay = event_time
    /\ weekday(t) \in schedule_days

\* C24: schedule() terminates, after at most a week of loop passes, and registers
\* exactly one point-in-time callback, at the earliest time that is not before
\* now, has the configured time of day and falls on a weekday of the schedule.
C24_NextRunIsEarliest ==
    /\ iterations <= 7
    /\ schedule_pc # "done" => point_in_time = <<>>
    /\ schedule_pc = "done" =>
          /\ Len(point_in_time) = 1
          /\ Runnable(point_in_time[1], loop_now)
          /\ \A t \in loop_now..point_in_time[1] :
                Runnable(t, loop_now) => t = point_in_time[1]

\* C24's case: schedule() was called on a day outside the schedule, after the
\* event's time of day, and registered the callback several days later.
C24_Witness ==
    /\ schedule_pc = "done"
    /\ weekday(first_now) \notin schedule_days
    /\ first_now % TicksPerDay > event_time
    /\ iterations >= 3
    /\ Len(point_in_time) = 1

-----------------------------------------------------------------------------
(* ensure_unique_string's claim, under UniqueSpec *)

\* C25: ensure_unique_string terminates, within one loop pass per current
\* string, and returns a string that is not in current_strings: the preferred
\* string when it is not among them, otherwise preferred_N for the smallest N >= 2
\* whose preferred_N is not among them.
C25_SmallestFreeSuffix ==
    /\ tries <= Cardinality(current_strings) + 1
    /\ unique_pc = "returned" =>
          /\ string \notin current_strings
          /\ preferred_string \notin current_strings => string = preferred_string
          /\ preferred_string \in current_strings =>
                /\ tries >= 2
                /\ string = Numbered(preferred_string, tries)
                /\ \A n \in 2..(tries - 1) :
                      Numbered(preferred_string, n) \in current_strings

\* C25's case: "light.lamp_2" was preferred while it, its _2 and the string
\* "light.lamp_3" were taken, and "light.lamp_2_3" was returned.
C25_Witness ==
    /\ unique_pc = "returned"
    /\ preferred_string = "light.lamp_2"
    /\ "light.lamp_3" \in current_strings
    /\ string = "light.lamp_2_3"

-----------------------------------------------------------------------------
(* The Device helper's claim, under DeviceSpec *)

\* C26: with entity_id None, update_ha_state raises NoEntitySpecifiedError, sets no
\* State and does not update the device; otherwise a call that returns has called
\* states.set exactly once, with the device's state and attributes, and with
\* force_refresh the device's update() came before the state was read and set.
C26_SetOnceAfterRefresh ==
    [][device_result' # "none" /\ <<device_log, device_result, states_set, held_device>>'
                                    # <<device_log, device_result, states_set, held_device>> =>
         /\ device_entity_id = "None" =>
               /\ device_result' = "NoEntitySpecifiedError"
               /\ states_set' = <<>>
               /\ device_log' = <<>>
               /\ held_device' = held_device
         /\ device_entity_id # "None" =>
               /\ device_result' # "NoEntitySpecifiedError"
               /\ device_result' = "returned" =>
                     /\ Len(states_set') = 1
                     /\ states_set'[1] = [entity_id |-> device_entity_id,
                                          state |-> held_device'.state,
                                          attributes |-> held_device'.attributes]
                     /\ device_log'[Len(device_log')] = "set"
                     /\ "update" \in Range(device_log') =>
                           /\ device_log'[1] = "update"
                           /\ held_device' = real_device
                     /\ "update" \notin Range(device_log') => held_device' = held_device
               /\ device_result' = "raised" => states_set' = <<>>]_vars

\* C26's case: a call with force_refresh returned after the real device had
\* changed, and set the State to the real device's new state.
C26_Witness ==
    /\ device_result = "returned"
    /\ device_log = <<"update", "get_state", "get_state_attributes", "set">>
    /\ Len(states_set) = 1
    /\ states_set[1].state = real_device.state
    /\ states_set[1].entity_id = device_entity_id

-----------------------------------------------------------------------------
(* The pool's termination claim, under PoolSpec *)

\* C27: no interleaving of stop() with the workers leaves stop() blocked while it
\* holds the pool lock: stop() is never waiting in work_queue.get() on an empty
\* queue, where only add_job, which needs the lock stop() holds, could wake it.
C27_StopNeverBlocked ==
    ~(stop_pc = "clear_get" /\ lock_owner = "stop" /\ work_queue = {})

-----------------------------------------------------------------------------
(* The tracker's entity claim, under Spec *)

\* C29: no two tracked device ids share a category, whatever map
\* get_devices_to_track returned.
C29_DistinctDevicesDistinctCategories ==
    \A d1, d2 \in DOMAIN devices_to_track :
        d1 # d2 => devices_to_track[d1].category # devices_to_track[d2].category

-----------------------------------------------------------------------------
(* The tracker's concurrency claim, under OverlapSpec *)

\* C28: no update_devices call writes not_home for a device that another call has
\* set home with a last_seen at most 70 seconds before the write.
C28_NotHomeOnlyWhenStale ==
    ~(/\ last_not_home.by # 0
      /\ last_not_home.home_by # 0
      /\ last_not_home.home_by # last_not_home.by
      /\ ~last_not_home.gone_too_long)

-----------------------------------------------------------------------------
(* The pool's delivery claim, under PoolFairSpec *)

\* C30: every job add_job accepted is passed to job_handler, unless stop() clears
\* it from the queue: a job that is queued does not stay queued for ever.
C30_AcceptedJobHandled ==
    \A j \in 1..MaxJobs :
        (j \in DOMAIN jobs /\ jobs[j].status = "queued")
            ~> (j \in DOMAIN jobs /\ jobs[j].status # "queued")

-----------------------------------------------------------------------------
(* The Throttle decorator's further claims, under ThrottleSpec *)

\* C31: a call that did not run the decorated method, throttled by the wrapper or
\* by the limit_no_throttle wrapper inside it, leaves last_call of both unchanged.
C31_ThrottledCallKeepsLastCall ==
    [][\A t \in Threads :
          (Calls(t) /\ th_result'[t] = "None")
              => /\ last_call' = last_call
                 /\ inner_last_call' = inner_last_call]_vars

\* C32: no call, the first one included, hands no_throttle on to the decorated
\* method.
C32_NoThrottleNotForwarded ==
    \A t \in Threads : ~th_kwargs[t]

\* The threads inside the decorated method
InMethod == {t \in Threads : th_pc[t] = "method"}

\* C33: when the decorated method raises, from its body or as the TypeError of a
\* call it does not accept, last_call of both wrappers stays as it was and the
\* lock is released; and whenever no call is in progress the lock is free, so the
\* next call is not blocked.
C33_RaiseKeepsLastCallFreesLock ==
    [][/\ \A t \in Threads :
            (th_pc[t] = "method" /\ th_result'[t] = "raised")
                => /\ last_call' = last_call
                   /\ inner_last_call' = inner_last_call
                   /\ lock' = 0
       /\ \A t \in Threads :
            (Calls(t) /\ th_result'[t] = "TypeError")
                => /\ last_call' = last_call
                   /\ inner_last_call' = inner_last_call
                   /\ lock' = 0
       /\ (InMethod' = {}) => lock' = 0]_vars

\* C33's case: the method ran and returned, a later call of it raised, and the
\* cooldown still counts from the return.
C33_Witness ==
    /\ \E t \in Threads : th_result[t] = "raised"
    /\ lock = 0
    /\ last_return # None
    /\ last_call = last_return
    /\ clock > last_return

\* C34: at most one thread is inside the decorated method, and it holds the lock
\* from the test of last_call to its update: last_call does not change while a
\* thread is inside the method and stays there.
C34_OneThreadInMethod ==
    [][/\ Cardinality(InMethod') <= 1
       /\ \A t \in InMethod' : lock' = t
       /\ \A t \in Threads :
             (th_pc[t] = "method" /\ th_pc'[t] = "method")
                 => /\ last_call' = last_call
                    /\ inner_last_call' = inner_last_call]_vars

\* C34's case: a thread is inside the decorated method, holding the lock, after
\* the other thread has made a call of its own.
C34_Witness ==
    \E t, u \in Threads :
        /\ t # u
        /\ th_pc[t] = "method"
        /\ lock = t
        /\ th_pc[u] = "idle"
        /\ th_result[u] # "none"

-----------------------------------------------------------------------------
(* The light component's claim, under LightSpec *)

\* C35: two polls of the lights never start within MIN_TIME_BETWEEN_SCANS of each
\* other, whoever called update_light_state.
C35_PollsTenSecondsApart ==
    prev_poll # None => last_poll - prev_poll > MIN_TIME_BETWEEN_SCANS

=============================================================================
